---- MODULE Spec2Model ----
(***************************************************************************)
(* Account health state machine of claude-relay-service:                   *)
(*   AccountAutoDisableService.handleErrorResponse  (disable path)         *)
(*   AutoRecoveryService (start/stop, startup cleanup, recovery cycle,     *)
(*   re-admission, manual recovery)                                        *)
(*   sendStreamTestRequest (manual connectivity test, the call site of     *)
(*   both handleErrorResponse and recoverAccountFromTest)                  *)
(* Every await of the JavaScript code is one step of the model, so that    *)
(* the writers interleave as they do on the event loop.                    *)
(***************************************************************************)
EXTENDS Integers, Sequences, FiniteSets, TLC

\* ------------------------------------------------------------------ bounds
MaxClock == 1
MaxCalls == 2
MaxCycles == 2
MaxFaults == 1
MaxTests == 1
MaxNoops == 1

\* ------------------------------------------------------- program constants
ReasonMaxLen == 200
StatusLow == 400
StatusHigh == 600

\* the accountTypes array of runRecoveryCheck / cleanupInconsistentData
accountTypes ==
  << "claude-official", "claude-console", "gemini", "bedrock",
     "azure-openai", "droid", "ccr", "openai-responses" >>

\* the accountTypes array of cleanupInconsistentData
cleanupAccountTypes ==
  << "claude-official", "claude-console", "gemini", "bedrock",
     "azure-openai", "droid", "ccr", "openai-responses" >>

\* a provider type that no switch statement of the services recognises
UnknownType == "unknown-type"

\* -------------------------------------------------------- optional values
\* a field that is absent (JavaScript null / undefined / missing hash field)
None == << >>
Some(v) == << v >>
Has(o) == o # << >>

Min(a, b) == IF a < b THEN a ELSE b

\* ----------------------------------------------------------------- strings
\* a JavaScript string is a sequence of one-character strings
DigitChar(d) == << "0", "1", "2", "3", "4", "5", "6", "7", "8", "9" >>[d + 1]

RECURSIVE Digits(_)
\* decimal formatting of a non-negative integer inside a template literal
Digits(n) == IF n < 10 THEN << DigitChar(n) >>
             ELSE Digits(n \div 10) \o << DigitChar(n % 10) >>

\* String.prototype.substring(0, n)
Substring0(s, n) == SubSeq(s, 1, Min(n, Len(s)))

\* an errorMessage argument: a string, or a value that is not a string
\* (object, number, boolean), which has no substring method
StrMsg(chars) == [isString |-> TRUE, chars |-> chars]
NonStringMsg == [isString |-> FALSE, chars |-> << >>]

MsgNotFound == StrMsg(<< "n", "o", "t", " ", "f", "o", "u", "n", "d" >>)
MsgLong == StrMsg([i \in 1..(ReasonMaxLen + 1) |-> "a"])
StringMessages == { MsgNotFound, MsgLong }

\* -------------------------------------------------------------- accounts
\* the provisioned accounts: (record store, account id)
Accounts ==
  { << "claude-console", "X" >>, << "gemini", "Z" >> }

\* the (accountType, accountId) pairs that callers pass
CallTargets == { << a[1], a[2] >> : a \in Accounts } \cup { << UnknownType, "X" >> }

IndexKeys == { accountTypes[i] : i \in 1..Len(accountTypes) } \cup { UnknownType }

ApiUrl == "https://upstream/v1/messages"

StatusCodes == { 301, 399, 400, 404, 599, 600 }

FreshRecord ==
  [ schedulable |-> TRUE,
    autoDisabledAt |-> None,
    autoDisabledReason |-> None,
    autoDisabledDetails |-> None,
    lastAutoRecoveryAttempt |-> None,
    autoRecoveredAt |-> None,
    isDeleted |-> FALSE ]

\* updateAccount(id, partialFields) of an account service: the named fields
\* are overwritten, a null value leaves the field absent
MergeUpdates(rec, updates) ==
  [ f \in DOMAIN rec |-> IF f \in DOMAIN updates THEN updates[f] ELSE rec[f] ]

\* ------------------------------------------- AccountAutoDisableService
\* the guard of handleErrorResponse, negated: the call goes on to disable
QualifiesMutOffByOne(statusCode) == ~(statusCode <= StatusLow \/ statusCode >= StatusHigh)
Qualifies(statusCode) == ~(statusCode < StatusLow \/ statusCode >= StatusHigh)

\* `HTTP ${statusCode}: ${errorMessage.substring(0, 200)}`
AutoDisabledReasonMutNoTruncate(statusCode, msg) ==
  << "H", "T", "T", "P", " " >> \o Digits(statusCode) \o << ":", " " >> \o msg.chars
AutoDisabledReason(statusCode, msg) ==
  << "H", "T", "T", "P", " " >> \o Digits(statusCode) \o << ":", " " >>
    \o Substring0(msg.chars, ReasonMaxLen)

\* the object handed to JSON.stringify for autoDisabledDetails
AutoDisabledDetails(statusCode, msg, apiUrl, triggerType, t) ==
  [ statusCode |-> statusCode, errorMessage |-> msg.chars, apiUrl |-> apiUrl,
    triggerType |-> triggerType, disabledAt |-> t ]

\* the updates object of handleErrorResponse
DisableUpdatesMutNoDetails(statusCode, msg, apiUrl, triggerType, t) ==
  [ schedulable |-> FALSE,
    autoDisabledAt |-> Some(t),
    autoDisabledReason |-> Some(AutoDisabledReason(statusCode, msg)) ]
DisableUpdates(statusCode, msg, apiUrl, triggerType, t) ==
  [ schedulable |-> FALSE,
    autoDisabledAt |-> Some(t),
    autoDisabledReason |-> Some(AutoDisabledReason(statusCode, msg)),
    autoDisabledDetails |->
      Some(AutoDisabledDetails(statusCode, msg, apiUrl, triggerType, t)) ]

\* the switch of _updateAccountByType of the auto-disable service: the record
\* store a provider type is dispatched to, None for the default branch (throws)
AccountServiceMutDefault(accountType) ==
  IF accountType \in { accountTypes[i] : i \in 1..Len(accountTypes) }
  THEN Some(accountType) ELSE Some("claude-console")
AccountService(accountType) ==
  IF accountType \in { "claude-official", "claude-console", "gemini", "bedrock",
                       "azure-openai", "droid", "ccr", "openai-responses" }
  THEN Some(accountType) ELSE None

\* the switch of _getAccountByType of the recovery service
GetAccountByType(accountType) ==
  IF accountType \in { "claude-official", "claude-console", "gemini", "bedrock",
                       "azure-openai", "droid", "ccr", "openai-responses" }
  THEN Some(accountType) ELSE None

\* the switch of _updateAccountByType of the recovery service
UpdateAccountByTypeMutNoGemini(accountType) ==
  IF accountType \in { "claude-official", "claude-console", "bedrock",
                       "azure-openai", "droid", "ccr", "openai-responses" }
  THEN Some(accountType) ELSE None
UpdateAccountByType(accountType) ==
  IF accountType \in { "claude-official", "claude-console", "gemini", "bedrock",
                       "azure-openai", "droid", "ccr", "openai-responses" }
  THEN Some(accountType) ELSE None

\* the try block of handleErrorResponse: sadd is reached only when
\* _updateAccountByType did not throw
AfterUpdateMutAlwaysSadd(ok) == "sadd"
AfterUpdate(ok) == IF ok THEN "sadd" ELSE "idle"

\* ------------------------------------------------- AutoRecoveryService
\* _validateAccountData on the fetched account (None: getAccount found none)
IsValidAccountMutAtOnly(account) ==
  account # None /\ Has(account[1].autoDisabledAt)
IsValidAccount(account) ==
  /\ account # None
  /\ Has(account[1].autoDisabledAt)
  /\ Has(account[1].autoDisabledReason)

\* the switch of _testAccountConnection: the types that have a probe
HasProbeMutEveryType(accountType) == TRUE
HasProbe(accountType) == accountType \in { "claude-console", "bedrock" }

\* recoverAccountFromTest: _recoverAccount is reached only when sIsMember
\* answered true
AfterIsMemberMutAlwaysRecover(isMember) == "update"
AfterIsMember(isMember) == IF isMember THEN "update" ELSE "idle"

\* checkAccountType: if (testResult.success) _recoverAccount, else failed++
AfterProbeMutAlwaysRecover(success) == "recover"
AfterProbe(success) == IF success THEN "recover" ELSE "failed"

\* _recoverAccount: srem is reached only when _updateAccountByType did not
\* throw
AfterRecoverUpdateMutAlwaysSrem(ok) == "srem"
AfterRecoverUpdate(ok) == IF ok THEN "srem" ELSE "failed"

\* the updates object of _recoverAccount
RecoverUpdatesMutKeepsDetails(t) ==
  [ schedulable |-> TRUE,
    autoDisabledAt |-> None,
    autoDisabledReason |-> None,
    lastAutoRecoveryAttempt |-> Some(t),
    autoRecoveredAt |-> Some(t) ]
RecoverUpdatesMutKeepsReason(t) ==
  [ schedulable |-> TRUE,
    autoDisabledAt |-> None,
    autoDisabledDetails |-> None,
    lastAutoRecoveryAttempt |-> Some(t),
    autoRecoveredAt |-> Some(t) ]
RecoverUpdates(t) ==
  [ schedulable |-> TRUE,
    autoDisabledAt |-> None,
    autoDisabledReason |-> None,
    autoDisabledDetails |-> None,
    lastAutoRecoveryAttempt |-> Some(t),
    autoRecoveredAt |-> Some(t) ]

\* the updates object of _updateLastRecoveryAttempt
AttemptUpdatesMutClears(t) == [ lastAutoRecoveryAttempt |-> None ]
AttemptUpdatesMutSchedulable(t) ==
  [ lastAutoRecoveryAttempt |-> Some(t), schedulable |-> TRUE ]
AttemptUpdates(t) == [ lastAutoRecoveryAttempt |-> Some(t) ]


\* ---------------------------------------------------------------- state
VARIABLES
  now,          \* the clock behind new Date()
  record,       \* Account Record Store: account -> None or Some(record)
  index,        \* redis sets auto_disabled_accounts:<type>
  healthy,      \* accounts whose upstream answers 200 to a probe
  hung,         \* accounts whose upstream never answers a probe
  initial,      \* the records and the index as they were at the start
  faults,       \* store / probe failures injected so far
  h,            \* the handleErrorResponse call in flight, or the last one
  hprev,        \* the handleErrorResponse call before h
  calls,        \* handleErrorResponse calls made so far
  lastWriter,   \* per account: the operation that wrote the record last
  cyc,          \* per slot: a cleanupInconsistentData / runRecoveryCheck run
  cycles,       \* runs launched so far
  man,          \* the recoverAccountFromTest call in flight, or the last one
  tests,        \* sendStreamTestRequest calls made so far
  test,         \* what the last sendStreamTestRequest call did to its client stream
  svc,          \* AutoRecoveryService: isRunning, intervalHandle; the intervals
                \* armed in the event loop; the calls that returned at once
  enabled       \* config.autoRecovery.enabled

vars == << now, record, index, healthy, hung, initial, faults, h, hprev, calls, lastWriter,
           cyc, cycles, man, tests, test, svc, enabled >>

CycleSlots == { "c1" }

NoResult == [ kind |-> "none", disabled |-> FALSE, reason |-> None, error |-> None ]
\* { disabled: false }
NotDisabled == [ kind |-> "value", disabled |-> FALSE, reason |-> None, error |-> None ]
\* { disabled: true, reason: updates.autoDisabledReason }
Disabled(reason) ==
  [ kind |-> "value", disabled |-> TRUE, reason |-> reason, error |-> None ]
\* { disabled: false, error: error.message }
DisableFailed(message) ==
  [ kind |-> "value", disabled |-> FALSE, reason |-> None, error |-> Some(message) ]
\* the promise returned by the async function rejects
Rejected(message) ==
  [ kind |-> "rejected", disabled |-> FALSE, reason |-> None, error |-> Some(message) ]

\* `Unknown account type: ${accountType}` for the one unrecognised type
ErrUnknownType == "Unknown account type: unknown-type"
ErrRecordStore == "record store unavailable"
ErrIndex == "index unavailable"
ErrTypeError == "errorMessage.substring is not a function"

IdleCall ==
  [ pc |-> "idle", accountId |-> "X", accountType |-> "claude-console",
    statusCode |-> 200, msg |-> MsgNotFound, apiUrl |-> ApiUrl,
    triggerType |-> "request", updates |-> None,
    recordWritten |-> FALSE, updateFailed |-> FALSE,
    saddAttempted |-> FALSE, saddFailed |-> FALSE,
    result |-> NoResult ]

\* what is remembered of the call before the current one: its target and
\* message when it returned disabled=true
NoCall == [ disabled |-> FALSE, target |-> << "", "" >>, msg |-> MsgNotFound ]
Summary(call) ==
  IF call.result.kind = "value" /\ call.result.disabled
  THEN [ disabled |-> TRUE, target |-> << call.accountType, call.accountId >>,
         msg |-> call.msg ]
  ELSE NoCall

IdleCycle ==
  [ pc |-> "idle", mode |-> "check", typeIdx |-> 1, todo |-> {}, cur |-> None,
    checked |-> 0, recovered |-> 0, failed |-> 0, cleaned |-> 0,
    totalChecked |-> 0, totalRecovered |-> 0, totalFailed |-> 0, totalCleaned |-> 0,
    done |-> FALSE, undisturbed |-> FALSE, due |-> {},
    attemptAt |-> None, recordWritten |-> FALSE, updateFailed |-> FALSE,
    startupCleaned |-> 0, overlap |-> FALSE ]

IdleManual ==
  [ pc |-> "idle", accountId |-> "X", accountType |-> "claude-console",
    recordWritten |-> FALSE, updateFailed |-> FALSE, sremAttempted |-> FALSE,
    result |-> [ kind |-> "none", recovered |-> FALSE, reason |-> "" ] ]

\* the client stream of a connectivity test: the test_complete events
\* written, the success flag and the error of the last one, whether the stream
\* has been ended and the promise resolved; what the upstream did, the
\* accountType / accountId passed (None when either is missing), the status
\* of the response (0 when there was none) and the health call launched
NoTest ==
  [ complete |-> 0, success |-> FALSE, error |-> None, ended |-> FALSE,
    resolved |-> FALSE, upstream |-> "none", ids |-> None, status |-> 0,
    launched |-> "none" ]

\* the service as its constructor leaves it
NotStarted ==
  [ isRunning |-> FALSE, intervalHandle |-> FALSE, timers |-> 0, noops |-> 0,
    lastNoop |-> "" ]

Init ==
  /\ now = 0
  /\ record = [ a \in Accounts |-> Some(FreshRecord) ]
  /\ index = [ k \in IndexKeys |-> {} ]
  /\ healthy \in { {}, Accounts }
  /\ hung = {}
  /\ initial = [ record |-> record, index |-> index ]
  /\ faults = 0
  /\ h = IdleCall
  /\ hprev = NoCall
  /\ calls = 0
  /\ lastWriter = [ a \in Accounts |-> "none" ]
  /\ cyc = [ s \in CycleSlots |-> IdleCycle ]
  /\ cycles = 0
  /\ man = IdleManual
  /\ tests = 0
  /\ test = NoTest
  /\ svc = NotStarted
  /\ enabled \in BOOLEAN

\* index membership and record fields of an account
InIndex(a) == a[2] \in index[a[1]]
BothFields(a) ==
  /\ record[a] # None
  /\ Has(record[a][1].autoDisabledAt)
  /\ Has(record[a][1].autoDisabledReason)
Quarantined(a) == InIndex(a) /\ BothFields(a) /\ ~record[a][1].schedulable

\* a step of another writer, a store failure or a change of the upstream
\* while a run is in flight: the run is no longer a run in isolation
Disturbed == [ s \in DOMAIN cyc |-> [ cyc[s] EXCEPT !.undisturbed = FALSE ] ]

\* the account a call addresses in the record stores, None when the type is
\* not dispatched to any store
StoreKeyMutFirstAccount(accountType, accountId) ==
  IF AccountService(accountType) = None THEN None
  ELSE Some(<< "claude-console", "X" >>)
StoreKey(accountType, accountId) ==
  IF AccountService(accountType) = None THEN None
  ELSE Some(<< AccountService(accountType)[1], accountId >>)

\* the same for the calls of the recovery service
RecoveryStoreKey(accountType, accountId) ==
  IF UpdateAccountByType(accountType) = None THEN None
  ELSE Some(<< UpdateAccountByType(accountType)[1], accountId >>)

\* ------------------------------------------------ handleErrorResponse
\* the synchronous head of handleErrorResponse, up to the first await
HandleErrorResponse(accountId, accountType, statusCode, msg, apiUrl, triggerType) ==
  /\ h.pc = "idle"
  /\ calls < MaxCalls
  /\ calls' = calls + 1
  /\ hprev' = Summary(h)
  /\ LET call == [ IdleCall EXCEPT !.accountId = accountId, !.accountType = accountType,
                     !.statusCode = statusCode, !.msg = msg, !.apiUrl = apiUrl,
                     !.triggerType = triggerType ]
     IN IF ~Qualifies(statusCode)
        THEN h' = [ call EXCEPT !.result = NotDisabled ]
        ELSE IF ~msg.isString
        THEN h' = [ call EXCEPT !.result = Rejected(ErrTypeError) ]
        ELSE h' = [ call EXCEPT !.pc = "update",
                      !.updates = Some(DisableUpdates(statusCode, msg, apiUrl, triggerType, now)) ]
  /\ cyc' = Disturbed
  /\ UNCHANGED << now, record, index, healthy, hung, initial, faults, lastWriter, cycles, man, svc, enabled >>

\* a relay service reports the status and message of an upstream response:
\* any status code, any message, any provider type
RelayErrorAny ==
  /\ \E tgt \in CallTargets, statusCode \in StatusCodes, msg \in StringMessages :
       HandleErrorResponse(tgt[2], tgt[1], statusCode, msg, ApiUrl, "request")
  /\ UNCHANGED << tests, test >>

\* a relay service reports a 404 of one of the provisioned accounts
RelayError ==
  /\ \E a \in Accounts :
       HandleErrorResponse(a[2], a[1], 404, MsgNotFound, ApiUrl, "request")
  /\ UNCHANGED << tests, test >>

\* await this._updateAccountByType(accountId, accountType, updates)
HUpdateAccount ==
  /\ h.pc = "update"
  /\ LET key == StoreKey(h.accountType, h.accountId)
         fail(message) ==
           /\ h' = [ h EXCEPT !.pc = AfterUpdate(FALSE), !.updateFailed = TRUE,
                       !.result = DisableFailed(message) ]
           /\ UNCHANGED << record, lastWriter >>
     IN \/ /\ AccountService(h.accountType) = None
           /\ fail(ErrUnknownType)
           /\ UNCHANGED faults
        \/ /\ key # None
           /\ faults < MaxFaults
           /\ faults' = faults + 1
           /\ fail(ErrRecordStore)
        \/ /\ key # None
           /\ record' = [ record EXCEPT ![key[1]] = Some(MergeUpdates(@[1], h.updates[1])) ]
           /\ lastWriter' = [ lastWriter EXCEPT ![key[1]] = "disable" ]
           /\ h' = [ h EXCEPT !.pc = AfterUpdate(TRUE), !.recordWritten = TRUE ]
           /\ UNCHANGED faults
  /\ cyc' = Disturbed
  /\ UNCHANGED << now, index, healthy, hung, initial, hprev, calls, cycles, man, tests, test, svc, enabled >>

\* await redis.sadd(`auto_disabled_accounts:${accountType}`, accountId)
HSadd ==
  /\ h.pc = "sadd"
  /\ \/ /\ index' = [ index EXCEPT ![h.accountType] = @ \cup { h.accountId } ]
        /\ h' = [ h EXCEPT !.pc = "idle", !.saddAttempted = TRUE,
                    !.result = Disabled(h.updates[1].autoDisabledReason) ]
        /\ UNCHANGED faults
     \/ /\ faults < MaxFaults
        /\ faults' = faults + 1
        /\ h' = [ h EXCEPT !.pc = "idle", !.saddAttempted = TRUE, !.saddFailed = TRUE,
                    !.result = DisableFailed(ErrIndex) ]
        /\ UNCHANGED index
  /\ cyc' = Disturbed
  /\ UNCHANGED << now, record, healthy, hung, initial, hprev, calls, lastWriter, cycles, man, tests, test, svc, enabled >>

\* ----------------------------------------------- recoverAccountFromTest
NotAutoDisabled == [ kind |-> "value", recovered |-> FALSE, reason |-> "not_auto_disabled" ]
TestSuccess == [ kind |-> "value", recovered |-> TRUE, reason |-> "test_success" ]
RecoverError == [ kind |-> "value", recovered |-> FALSE, reason |-> "error" ]

\* the synchronous head of recoverAccountFromTest
RecoverAccountFromTest(accountId, accountType) ==
  /\ man.pc = "idle"
  /\ man' = [ IdleManual EXCEPT !.pc = "sismember", !.accountId = accountId,
                !.accountType = accountType ]
  /\ cyc' = Disturbed

\* await client.sIsMember(`auto_disabled_accounts:${accountType}`, accountId)
MSIsMember ==
  /\ man.pc = "sismember"
  /\ \/ /\ LET next == AfterIsMember(man.accountId \in index[man.accountType])
           IN man' = [ man EXCEPT !.pc = next,
                         !.result = IF next = "idle" THEN NotAutoDisabled ELSE @ ]
        /\ UNCHANGED faults
     \/ /\ faults < MaxFaults
        /\ faults' = faults + 1
        /\ man' = [ man EXCEPT !.pc = "idle", !.result = RecoverError ]
  /\ cyc' = Disturbed
  /\ UNCHANGED << now, record, index, healthy, hung, initial, h, hprev, calls, lastWriter, cycles,
                  tests, test, svc, enabled >>

\* _recoverAccount: await this._updateAccountByType(accountId, accountType, updates)
MRecover ==
  /\ man.pc = "update"
  /\ LET key == RecoveryStoreKey(man.accountType, man.accountId)
     IN \/ /\ key # None
           /\ record' = [ record EXCEPT ![key[1]] =
                            Some(MergeUpdates(@[1], RecoverUpdates(now))) ]
           /\ lastWriter' = [ lastWriter EXCEPT ![key[1]] = "recover" ]
           /\ man' = [ man EXCEPT !.pc = AfterRecoverUpdate(TRUE), !.recordWritten = TRUE ]
           /\ UNCHANGED faults
        \/ /\ key # None
           /\ faults < MaxFaults
           /\ faults' = faults + 1
           /\ man' = [ man EXCEPT
                         !.pc = IF AfterRecoverUpdate(FALSE) = "srem" THEN "srem" ELSE "idle",
                         !.updateFailed = TRUE, !.result = RecoverError ]
           /\ UNCHANGED << record, lastWriter >>
        \/ \* _updateAccountByType: default: throw new Error('Unknown account type')
           /\ key = None
           /\ man' = [ man EXCEPT !.pc = "idle", !.updateFailed = TRUE,
                         !.result = RecoverError ]
           /\ UNCHANGED << record, lastWriter, faults >>
  /\ cyc' = Disturbed
  /\ UNCHANGED << now, index, healthy, hung, initial, h, hprev, calls, cycles, tests, test, svc, enabled >>

\* _recoverAccount: await client.srem(`auto_disabled_accounts:${accountType}`, accountId)
MSrem ==
  /\ man.pc = "srem"
  /\ \/ /\ index' = [ index EXCEPT ![man.accountType] = @ \ { man.accountId } ]
        /\ man' = [ man EXCEPT !.pc = "idle", !.sremAttempted = TRUE,
                      !.result = IF man.updateFailed THEN RecoverError ELSE TestSuccess ]
        /\ UNCHANGED faults
     \/ /\ faults < MaxFaults
        /\ faults' = faults + 1
        /\ man' = [ man EXCEPT !.pc = "idle", !.sremAttempted = TRUE,
                      !.result = RecoverError ]
        /\ UNCHANGED index
  /\ cyc' = Disturbed
  /\ UNCHANGED << now, record, healthy, hung, initial, h, hprev, calls, lastWriter, cycles,
                  tests, test, svc, enabled >>

\* ------------------------------------------------ sendStreamTestRequest
ShortBodyLen == 200

\* a JavaScript value is truthy: every object, every non-empty string
Truthy(v) == ~v.isString \/ Len(v.chars) > 0

\* upstream error bodies: JSON objects with an optional message and an
\* optional error (a string, or an object with an optional message), or text
JsonBody(message, error) ==
  [ json |-> TRUE, message |-> message, error |-> error, text |-> << >> ]
TextBody(chars) == [ json |-> FALSE, message |-> None, error |-> None, text |-> chars ]
ErrorString(chars) == [ isString |-> TRUE, chars |-> chars, message |-> None ]
ErrorObject(message) == [ isString |-> FALSE, chars |-> << >>, message |-> message ]

\* {"message":"not found"}
BodyJsonMessage == JsonBody(Some(MsgNotFound), None)
\* {"error":{"message":"not found"}}
BodyJsonErrorMessage == JsonBody(None, Some(ErrorObject(Some(MsgNotFound))))
\* {"error":"not found"}
BodyJsonErrorString == JsonBody(None, Some(ErrorString(MsgNotFound.chars)))
\* {"error":{"type":"invalid_request_error"}}
BodyJsonErrorObject == JsonBody(None, Some(ErrorObject(None)))
\* {}
BodyJsonEmpty == JsonBody(None, None)
\* not found
BodyText == TextBody(MsgNotFound.chars)
\* a text body of ShortBodyLen characters
BodyTextLong == TextBody([ i \in 1..ShortBodyLen |-> "a" ])

ErrorBodies ==
  { BodyJsonMessage, BodyJsonErrorMessage, BodyJsonErrorString, BodyJsonErrorObject,
    BodyJsonEmpty, BodyText, BodyTextLong }

\* `API Error: ${response.status}`
ApiErrorMsg(status) ==
  StrMsg(<< "A", "P", "I", " ", "E", "r", "r", "o", "r", ":", " " >> \o Digits(status))

\* errorMsg = json.message || json.error?.message || json.error || errorMsg,
\* and the catch branch for a body that is not JSON
ExtractErrorMsg(status, body) ==
  IF body.json
  THEN IF body.message # None /\ Truthy(body.message[1]) THEN body.message[1]
       ELSE IF /\ body.error # None
               /\ ~body.error[1].isString
               /\ body.error[1].message # None
               /\ Truthy(body.error[1].message[1])
       THEN body.error[1].message[1]
       ELSE IF body.error # None /\ Truthy(body.error[1])
       THEN [ isString |-> body.error[1].isString, chars |-> body.error[1].chars ]
       ELSE ApiErrorMsg(status)
  ELSE IF Len(body.text) < ShortBodyLen /\ Len(body.text) > 0
       THEN StrMsg(body.text)
       ELSE ApiErrorMsg(status)

\* if (response.status >= 400 && response.status < 600)
TestQualifies(status) == status >= 400 /\ status < 600

\* endTest(success, error): one test_complete event and the end of the
\* client stream, unless the stream has been ended already
EndTestMutReportsSuccess(t, success, error) ==
  IF t.ended THEN t
  ELSE [ t EXCEPT !.complete = @ + 1, !.success = TRUE, !.error = None,
                  !.ended = TRUE ]
EndTest(t, success, error) ==
  IF t.ended THEN t
  ELSE [ t EXCEPT !.complete = @ + 1, !.success = success, !.error = error,
                  !.ended = TRUE ]

\* resolve(), or the return of the async function
Resolved(t) == [ t EXCEPT !.resolved = TRUE ]

\* error.message of a failed request and of a failed response stream
MsgTransport == StrMsg(<< "t", "i", "m", "e", "o", "u", "t" >>)
MsgStream == StrMsg(<< "a", "b", "o", "r", "t", "e", "d" >>)

\* if (response.status >= 400 && response.status < 600)
\*   if (accountId && accountType)
LaunchesDisableMutAnyStatus(ids, status) == ids # None
LaunchesDisable(ids, status) == ids # None /\ TestQualifies(status)

\* the non-200 branch: the body has been read, the error message extracted
StreamTestError(ids, status, body) ==
  /\ tests < MaxTests
  /\ tests' = tests + 1
  /\ test' = Resolved(EndTest([ NoTest EXCEPT !.upstream = "status", !.ids = ids,
                                   !.status = status,
                                   !.launched = IF LaunchesDisable(ids, status)
                                                THEN "disable" ELSE "none" ],
                               FALSE, Some(ExtractErrorMsg(status, body))))
  /\ IF LaunchesDisable(ids, status)
     THEN HandleErrorResponse(ids[1][2], ids[1][1], status, ExtractErrorMsg(status, body),
                              ApiUrl, "test")
     ELSE UNCHANGED << now, record, index, healthy, hung, initial, faults, h, hprev, calls,
                       lastWriter, cyc, cycles, man, svc, enabled >>

\* the 200 branch: the upstream stream has ended, with or without an error
\* event among its data
StreamTestSuccess(ids, errorEvent) ==
  /\ tests < MaxTests
  /\ tests' = tests + 1
  /\ test' = Resolved(EndTest([ NoTest EXCEPT
                                   !.upstream = IF errorEvent THEN "ok-error-event"
                                                ELSE "ok",
                                   !.ids = ids, !.status = 200,
                                   !.launched = IF ids # None THEN "recover"
                                                ELSE "none" ],
                               TRUE, None))
  /\ IF ids # None
     THEN RecoverAccountFromTest(ids[1][2], ids[1][1])
     ELSE UNCHANGED << cyc, man >>
  /\ UNCHANGED << now, record, index, healthy, hung, initial, faults, h, hprev, calls, lastWriter,
                  cycles, svc, enabled >>

\* the branches that launch no health call: the request failed (catch) or
\* the response stream failed (on 'error'), before or after a status
StreamTestQuiet(upstream, ids, status) ==
  /\ tests < MaxTests
  /\ tests' = tests + 1
  /\ test' = Resolved(EndTest([ NoTest EXCEPT !.upstream = upstream, !.ids = ids,
                                   !.status = status ],
                               FALSE,
                               Some(IF upstream = "transport" THEN MsgTransport
                                    ELSE MsgStream)))
  /\ UNCHANGED << now, record, index, healthy, hung, initial, faults, h, hprev, calls,
                  lastWriter, cyc, cycles, man, svc, enabled >>

\* a manual connectivity test of a provisioned account: 200 from a healthy
\* upstream, 404 with a JSON error body from an unhealthy one
SendStreamTestRequest ==
  \E a \in Accounts :
    IF a \in healthy THEN StreamTestSuccess(Some(a), FALSE)
    ELSE StreamTestError(Some(a), 404, BodyJsonMessage)

\* a manual connectivity test that the upstream answers with an error of
\* any status and any body
SendStreamTestRequestAny ==
  \E a \in Accounts, status \in StatusCodes, body \in ErrorBodies :
    StreamTestError(Some(a), status, body)

\* a manual connectivity test with or without accountId / accountType, of
\* any provider type, against an upstream that fails the request, answers
\* with an error status and a body, or answers 200, its response stream
\* ending or failing
SendStreamTestRequestFull ==
  \E ids \in { None } \cup { Some(tgt) : tgt \in CallTargets } :
    \/ StreamTestQuiet("transport", ids, 0)
    \/ \E status \in StatusCodes, body \in ErrorBodies :
         StreamTestError(ids, status, body)
    \/ \E status \in StatusCodes : StreamTestQuiet("status-stream-error", ids, status)
    \/ \E errorEvent \in BOOLEAN : StreamTestSuccess(ids, errorEvent)
    \/ StreamTestQuiet("ok-stream-error", ids, 200)

\* a manual connectivity test that the upstream answers with 200
SendStreamTestRequestOk ==
  \E a \in healthy : StreamTestSuccess(Some(a), FALSE)

\* ------------------------------- cleanupInconsistentData / runRecoveryCheck
\* the index key and the record of the account a run is working on
CurType(c) ==
  IF c.mode = "cleanup" THEN cleanupAccountTypes[c.typeIdx]
  ELSE accountTypes[c.typeIdx]
CurKey(c) == << CurType(c), c.cur[1] >>
CurAccount(c) ==
  IF GetAccountByType(CurType(c)) # None /\ CurKey(c) \in Accounts
  THEN record[CurKey(c)] ELSE None

\* a run launched now: in isolation as long as no other call is in flight,
\* overlapping when an earlier run has not finished
NewRun(mode) ==
  [ IdleCycle EXCEPT !.pc = "smembers", !.mode = mode,
      !.undisturbed = (h.pc = "idle" /\ man.pc = "idle"),
      !.overlap = (\E t \in DOMAIN cyc : cyc[t].pc # "idle"),
      !.due = { a \in Accounts : Quarantined(a) } ]

\* the end of runRecoveryCheck; the .then() of start() launches
\* runRecoveryCheck when cleanupInconsistentData has resolved
\* (cleanupInconsistentData resolves with its own { totalCleaned })
FinishRunMutNoInitialCheck(c) ==
  [ c EXCEPT !.pc = "idle", !.done = TRUE, !.todo = {}, !.cur = None ]
FinishRun(c) ==
  IF c.mode = "cleanup"
  THEN [ c EXCEPT !.pc = "smembers", !.mode = "check", !.typeIdx = 1,
           !.todo = {}, !.cur = None,
           !.startupCleaned = c.totalCleaned, !.totalCleaned = 0 ]
  ELSE [ c EXCEPT !.pc = "idle", !.done = TRUE, !.todo = {}, !.cur = None ]

\* the for loop over accountTypes moves on
NextTypeMutSkipsOne(c) ==
  IF c.typeIdx >= Len(accountTypes) - 1 THEN FinishRun(c)
  ELSE [ c EXCEPT !.pc = "smembers", !.typeIdx = @ + 2, !.todo = {}, !.cur = None ]
NextType(c) ==
  IF c.typeIdx = Len(accountTypes) THEN FinishRun(c)
  ELSE [ c EXCEPT !.pc = "smembers", !.typeIdx = @ + 1, !.todo = {}, !.cur = None ]

\* checkAccountType returns { checked, recovered, failed, cleaned } and
\* runRecoveryCheck adds them to its totals
FinishType(c) ==
  NextType([ c EXCEPT !.totalChecked = @ + c.checked,
               !.totalRecovered = @ + c.recovered,
               !.totalFailed = @ + c.failed,
               !.totalCleaned = @ + c.cleaned,
               !.checked = 0, !.recovered = 0, !.failed = 0, !.cleaned = 0 ])

\* checkAccountType threw (smembers failed): caught by runRecoveryCheck,
\* nothing is added to the totals
AbortType(c) ==
  NextType([ c EXCEPT !.checked = 0, !.recovered = 0, !.failed = 0, !.cleaned = 0 ])

\* the for loop over disabledAccountIds moves on: the runs it can continue as
AdvanceMutEndsWhenStopped(c) ==
  LET d == [ c EXCEPT !.attemptAt = None, !.recordWritten = FALSE,
               !.updateFailed = FALSE ]
  IN IF ~svc.isRunning
     THEN { [ d EXCEPT !.pc = "idle", !.done = TRUE, !.todo = {}, !.cur = None ] }
     ELSE IF d.todo = {} THEN { FinishType(d) }
     ELSE { [ d EXCEPT !.pc = "validate", !.cur = Some(id), !.todo = @ \ { id } ] :
              id \in d.todo }
Advance(c) ==
  LET d == [ c EXCEPT !.attemptAt = None, !.recordWritten = FALSE,
               !.updateFailed = FALSE ]
  IN IF d.todo = {} THEN { FinishType(d) }
     ELSE { [ d EXCEPT !.pc = "validate", !.cur = Some(id), !.todo = @ \ { id } ] :
              id \in d.todo }

FailedMutNotCounted(c) == c
Failed(c) == [ c EXCEPT !.failed = @ + 1 ]
Faulty(c) == [ c EXCEPT !.undisturbed = FALSE ]

\* the catch inside the for loop of checkAccountType: failed++, and the loop
\* goes on with the next account
AccountErrorMutAbortsType(c) == { AbortType(Failed(Faulty(c))) }
AccountError(c) == Advance(Failed(Faulty(c)))

\* await client.smembers(`auto_disabled_accounts:${accountType}`)
CSmembers(s) ==
  /\ cyc[s].pc = "smembers"
  /\ LET c == cyc[s]
         ids == index[CurType(c)]
     IN \/ /\ ids = {}
           /\ cyc' = [ cyc EXCEPT ![s] = FinishType(c) ]
           /\ UNCHANGED faults
        \/ /\ ids # {}
           /\ \E nxt \in Advance([ c EXCEPT !.todo = ids,
                                    !.checked = IF c.mode = "check"
                                                THEN Cardinality(ids) ELSE 0 ]) :
                cyc' = [ cyc EXCEPT ![s] = nxt ]
           /\ UNCHANGED faults
        \/ /\ faults < MaxFaults
           /\ faults' = faults + 1
           /\ cyc' = [ cyc EXCEPT ![s] = AbortType(Faulty(c)) ]
  /\ UNCHANGED << now, record, index, healthy, hung, initial, h, hprev, calls, lastWriter, cycles,
                  man, tests, test, svc, enabled >>

\* const isValid = await this._validateAccountData(accountId, accountType)
CValidate(s) ==
  /\ cyc[s].pc = "validate"
  /\ LET c == cyc[s]
     IN \/ /\ IsValidAccount(CurAccount(c))
           /\ IF c.mode = "check"
              THEN cyc' = [ cyc EXCEPT ![s] = [ c EXCEPT !.pc = "attempt" ] ]
              ELSE \E nxt \in Advance(c) : cyc' = [ cyc EXCEPT ![s] = nxt ]
           /\ UNCHANGED faults
        \/ /\ ~IsValidAccount(CurAccount(c))
           /\ cyc' = [ cyc EXCEPT ![s] = [ c EXCEPT !.pc = "cleanup" ] ]
           /\ UNCHANGED faults
        \/ \* getAccount throws: caught by _validateAccountData, which returns false
           /\ faults < MaxFaults
           /\ faults' = faults + 1
           /\ cyc' = [ cyc EXCEPT ![s] = [ Faulty(c) EXCEPT !.pc = "cleanup" ] ]
  /\ UNCHANGED << now, record, index, healthy, hung, initial, h, hprev, calls, lastWriter, cycles,
                  man, tests, test, svc, enabled >>

\* await this._cleanupInconsistentAccount(accountId, accountType); cleaned++
CCleanup(s) ==
  /\ cyc[s].pc = "cleanup"
  /\ LET c == cyc[s]
         counted == IF c.mode = "check" THEN [ c EXCEPT !.cleaned = @ + 1 ]
                    ELSE [ c EXCEPT !.totalCleaned = @ + 1 ]
     IN \/ /\ index' = [ index EXCEPT ![CurType(c)] = @ \ { c.cur[1] } ]
           /\ \E nxt \in Advance(counted) : cyc' = [ cyc EXCEPT ![s] = nxt ]
           /\ UNCHANGED faults
        \/ \* srem throws: caught and logged by _cleanupInconsistentAccount
           /\ faults < MaxFaults
           /\ faults' = faults + 1
           /\ \E nxt \in Advance(Faulty(counted)) : cyc' = [ cyc EXCEPT ![s] = nxt ]
           /\ UNCHANGED index
  /\ UNCHANGED << now, record, healthy, hung, initial, h, hprev, calls, lastWriter, cycles,
                  man, tests, test, svc, enabled >>

\* await this._updateLastRecoveryAttempt(accountId, accountType)
CAttempt(s) ==
  /\ cyc[s].pc = "attempt"
  /\ LET c == cyc[s]
     IN \/ /\ CurAccount(c) # None
           /\ record' = [ record EXCEPT ![CurKey(c)] =
                            Some(MergeUpdates(@[1], AttemptUpdates(now))) ]
           /\ lastWriter' = [ lastWriter EXCEPT ![CurKey(c)] = "attempt" ]
           /\ cyc' = [ cyc EXCEPT ![s] = [ c EXCEPT !.pc = "probe",
                                            !.attemptAt = Some(now) ] ]
           /\ UNCHANGED faults
        \/ /\ faults < MaxFaults
           /\ faults' = faults + 1
           /\ \E nxt \in AccountError(c) : cyc' = [ cyc EXCEPT ![s] = nxt ]
           /\ UNCHANGED << record, lastWriter >>
  /\ UNCHANGED << now, index, healthy, hung, initial, h, hprev, calls, cycles, man, tests, test, svc, enabled >>

\* const testResult = await this._testAccountConnection(accountId, accountType)
CProbe(s) ==
  /\ cyc[s].pc = "probe"
  /\ LET c == cyc[s]
         outcome(success, d) ==
           IF AfterProbe(success) = "recover"
           THEN cyc' = [ cyc EXCEPT ![s] = [ d EXCEPT !.pc = "recover" ] ]
           ELSE \E nxt \in Advance(Failed(d)) : cyc' = [ cyc EXCEPT ![s] = nxt ]
     IN \/ \* the await resolves: never, when the upstream does not answer
           /\ HasProbe(CurType(c)) => CurKey(c) \notin hung
           /\ outcome(HasProbe(CurType(c)) /\ CurKey(c) \in healthy, c)
           /\ UNCHANGED faults
        \/ \* the probe throws: caught by _testAccountConnection
           /\ HasProbe(CurType(c))
           /\ CurKey(c) \notin hung
           /\ faults < MaxFaults
           /\ faults' = faults + 1
           /\ outcome(FALSE, Faulty(c))
  /\ UNCHANGED << now, record, index, healthy, hung, initial, h, hprev, calls, lastWriter, cycles,
                  man, tests, test, svc, enabled >>

\* _recoverAccount: await this._updateAccountByType(accountId, accountType, updates)
CRecover(s) ==
  /\ cyc[s].pc = "recover"
  /\ LET c == cyc[s]
     IN \/ /\ CurAccount(c) # None
           /\ record' = [ record EXCEPT ![CurKey(c)] =
                            Some(MergeUpdates(@[1], RecoverUpdates(now))) ]
           /\ lastWriter' = [ lastWriter EXCEPT ![CurKey(c)] = "recover" ]
           /\ cyc' = [ cyc EXCEPT ![s] = [ c EXCEPT !.pc = AfterRecoverUpdate(TRUE),
                                            !.recordWritten = TRUE ] ]
           /\ UNCHANGED faults
        \/ /\ faults < MaxFaults
           /\ faults' = faults + 1
           /\ IF AfterRecoverUpdate(FALSE) = "srem"
              THEN cyc' = [ cyc EXCEPT ![s] = [ Faulty(c) EXCEPT !.pc = "srem",
                                                 !.updateFailed = TRUE ] ]
              ELSE \E nxt \in AccountError(c) : cyc' = [ cyc EXCEPT ![s] = nxt ]
           /\ UNCHANGED << record, lastWriter >>
  /\ UNCHANGED << now, index, healthy, hung, initial, h, hprev, calls, cycles, man, tests, test, svc, enabled >>

\* _recoverAccount: await client.srem(`auto_disabled_accounts:${accountType}`, accountId)
CSrem(s) ==
  /\ cyc[s].pc = "srem"
  /\ LET c == cyc[s]
     IN \/ /\ index' = [ index EXCEPT ![CurType(c)] = @ \ { c.cur[1] } ]
           /\ \E nxt \in Advance([ c EXCEPT !.recovered = @ + 1 ]) :
                cyc' = [ cyc EXCEPT ![s] = nxt ]
           /\ UNCHANGED faults
        \/ /\ faults < MaxFaults
           /\ faults' = faults + 1
           /\ \E nxt \in AccountError(c) : cyc' = [ cyc EXCEPT ![s] = nxt ]
           /\ UNCHANGED index
  /\ UNCHANGED << now, record, healthy, hung, initial, h, hprev, calls, lastWriter, cycles,
                  man, tests, test, svc, enabled >>

\* ------------------------------------------------------- start / stop
\* start(): the two early returns, or the start proper
StartBranchMutIgnoresRunning(isRunning, isEnabled) ==
  IF ~isEnabled THEN "disabled" ELSE "start"
StartBranchMutIgnoresEnabled(isRunning, isEnabled) ==
  IF isRunning THEN "running" ELSE "start"
StartBranch(isRunning, isEnabled) ==
  IF isRunning THEN "running"
  ELSE IF ~isEnabled THEN "disabled"
  ELSE "start"

\* this.isRunning = true; this.intervalHandle = setInterval(...)
StartedMutNoInterval(v) == [ v EXCEPT !.isRunning = TRUE ]
Started(v) ==
  [ v EXCEPT !.isRunning = TRUE, !.intervalHandle = TRUE, !.timers = @ + 1 ]

\* stop(): clearInterval when there is a handle, isRunning = false
StoppedMutKeepsRunning(v) ==
  [ v EXCEPT !.timers = IF v.intervalHandle THEN @ - 1 ELSE @,
             !.intervalHandle = FALSE ]
StoppedMutKeepsTimer(v) ==
  [ v EXCEPT !.intervalHandle = FALSE, !.isRunning = FALSE ]
Stopped(v) ==
  [ v EXCEPT !.timers = IF v.intervalHandle THEN @ - 1 ELSE @,
             !.intervalHandle = FALSE, !.isRunning = FALSE ]

\* start(): cleanupInconsistentData().then(runRecoveryCheck), setInterval
Start ==
  /\ StartBranch(svc.isRunning, enabled) = "start"
  /\ cycles < MaxCycles
  /\ \E s \in DOMAIN cyc :
       /\ cyc[s].pc = "idle"
       /\ cyc' = [ cyc EXCEPT ![s] = NewRun("cleanup") ]
  /\ cycles' = cycles + 1
  /\ svc' = Started(svc)
  /\ UNCHANGED << now, record, index, healthy, hung, initial, faults, h, hprev, calls, lastWriter,
                  man, tests, test, enabled >>

\* start() while running, or while disabled by configuration: logs and returns
StartReturns ==
  /\ StartBranch(svc.isRunning, enabled) # "start"
  /\ svc.noops < MaxNoops
  /\ svc' = [ svc EXCEPT !.noops = @ + 1, !.lastNoop = "start" ]
  /\ UNCHANGED << now, record, index, healthy, hung, initial, faults, h, hprev, calls, lastWriter,
                  cyc, cycles, man, tests, test, enabled >>

\* stop(): clearInterval, isRunning = false
Stop ==
  /\ svc.isRunning \/ svc.intervalHandle
  /\ svc' = Stopped(svc)
  /\ UNCHANGED << now, record, index, healthy, hung, initial, faults, h, hprev, calls, lastWriter,
                  cyc, cycles, man, tests, test, enabled >>

\* stop() while not running: there is no handle to clear
StopNotRunning ==
  /\ ~(svc.isRunning \/ svc.intervalHandle)
  /\ svc.noops < MaxNoops
  /\ svc' = [ Stopped(svc) EXCEPT !.noops = @ + 1, !.lastNoop = "stop" ]
  /\ UNCHANGED << now, record, index, healthy, hung, initial, faults, h, hprev, calls, lastWriter,
                  cyc, cycles, man, tests, test, enabled >>

\* the setInterval callback: this.runRecoveryCheck()
IntervalFires ==
  /\ svc.timers > 0
  /\ cycles < MaxCycles
  /\ \E s \in DOMAIN cyc :
       /\ cyc[s].pc = "idle"
       /\ cyc' = [ cyc EXCEPT ![s] = NewRun("check") ]
  /\ cycles' = cycles + 1
  /\ UNCHANGED << now, record, index, healthy, hung, initial, faults, h, hprev, calls, lastWriter,
                  man, tests, test, svc, enabled >>

\* time passes
Tick ==
  /\ now < MaxClock
  /\ now' = now + 1
  /\ UNCHANGED << record, index, healthy, hung, initial, faults, h, hprev, calls, lastWriter,
                  cyc, cycles, man, tests, test, svc, enabled >>

Cycle ==
  \E s \in DOMAIN cyc :
    CSmembers(s) \/ CValidate(s) \/ CCleanup(s) \/ CAttempt(s) \/ CProbe(s)
      \/ CRecover(s) \/ CSrem(s)

Next ==
  \/ RelayError \/ HUpdateAccount \/ HSadd
  \/ SendStreamTestRequest \/ MSIsMember \/ MRecover \/ MSrem
  \/ Cycle \/ Start \/ Stop \/ IntervalFires
  \/ Tick

Spec == Init /\ [][Next]_vars

\* the disable path alone, over every kind of argument
NextDisable == RelayErrorAny \/ HUpdateAccount \/ HSadd \/ Tick

InitDisable == Init /\ healthy = {} /\ enabled

SpecDisable == InitDisable /\ [][NextDisable]_vars

\* the disable path as the manual connectivity test drives it
NextTest == SendStreamTestRequestAny \/ HUpdateAccount \/ HSadd \/ Tick

SpecTest == InitDisable /\ [][NextTest]_vars

\* ---- the recovery paths alone, started from every kind of index entry
\* a record as a completed disable leaves it
QuarantinedRecord ==
  MergeUpdates(FreshRecord, DisableUpdates(404, MsgNotFound, ApiUrl, "request", 0))
\* an operator has set schedulable=false; no auto-disable field
ManualRecord == [ FreshRecord EXCEPT !.schedulable = FALSE ]
\* records that lack one of the two fields _validateAccountData requires
AtOnlyRecord == [ QuarantinedRecord EXCEPT !.autoDisabledReason = None ]
ReasonOnlyRecord == [ QuarantinedRecord EXCEPT !.autoDisabledAt = None ]

RecordStates ==
  { FreshRecord, QuarantinedRecord, ManualRecord, AtOnlyRecord, ReasonOnlyRecord }

\* an id left in the index by an account that has been deleted since
DeletedId == "Y"

InitRecover ==
  /\ now = 0
  /\ \E rx \in RecordStates, rz \in { FreshRecord, QuarantinedRecord } :
       record = [ a \in Accounts |-> IF a[2] = "X" THEN Some(rx) ELSE Some(rz) ]
  /\ \E inX \in BOOLEAN, stale \in BOOLEAN :
       index = [ k \in IndexKeys |->
                  IF k = "claude-console"
                  THEN (IF inX THEN { "X" } ELSE {}) \cup (IF stale THEN { DeletedId } ELSE {})
                  ELSE IF k = "gemini" /\ record[<< "gemini", "Z" >>] = Some(QuarantinedRecord)
                  THEN { "Z" } ELSE {} ]
  /\ healthy \in { {}, Accounts }
  /\ hung = {}
  /\ initial = [ record |-> record, index |-> index ]
  /\ faults = 0
  /\ h = IdleCall
  /\ hprev = NoCall
  /\ calls = 0
  /\ lastWriter = [ a \in Accounts |-> "none" ]
  /\ cyc = [ s \in CycleSlots |-> IdleCycle ]
  /\ cycles = 0
  /\ man = IdleManual
  /\ tests = 0
  /\ test = NoTest
  /\ svc \in { NotStarted, Started(NotStarted) }
  /\ enabled = TRUE

NextRecover ==
  \/ SendStreamTestRequestOk \/ MSIsMember \/ MRecover \/ MSrem
  \/ Cycle \/ Start \/ IntervalFires
  \/ Tick

SpecRecover == InitRecover /\ [][NextRecover]_vars

\* ---- the service lifecycle: start and stop in every state, with room for
\* a second run launched while the first has not finished
LifeSlots == { "c1", "c2" }

InitLife ==
  /\ now = 0
  /\ \E rx \in { QuarantinedRecord, AtOnlyRecord } :
       record = [ a \in Accounts |-> IF a[2] = "X" THEN Some(rx)
                                     ELSE Some(QuarantinedRecord) ]
  /\ \E stale \in BOOLEAN :
       index = [ k \in IndexKeys |->
                  IF k = "claude-console"
                  THEN { "X" } \cup (IF stale THEN { DeletedId } ELSE {})
                  ELSE IF k = "gemini" THEN { "Z" } ELSE {} ]
  /\ healthy \in { {}, Accounts }
  /\ hung \in { {}, { << "claude-console", "X" >> } }
  /\ initial = [ record |-> record, index |-> index ]
  /\ faults = MaxFaults
  /\ h = IdleCall
  /\ hprev = NoCall
  /\ calls = 0
  /\ lastWriter = [ a \in Accounts |-> "none" ]
  /\ cyc = [ s \in LifeSlots |-> IdleCycle ]
  /\ cycles = 0
  /\ man = IdleManual
  /\ tests = 0
  /\ test = NoTest
  /\ svc = NotStarted
  /\ enabled \in BOOLEAN

NextLife ==
  \/ Cycle \/ Start \/ StartReturns \/ Stop \/ StopNotRunning \/ IntervalFires

SpecLife == InitLife /\ [][NextLife]_vars

\* ---- the manual connectivity test over every kind of upstream answer
InitManual ==
  /\ now = 0
  /\ \E rx \in { FreshRecord, QuarantinedRecord } :
       /\ record = [ a \in Accounts |-> IF a[2] = "X" THEN Some(rx)
                                       ELSE Some(FreshRecord) ]
       /\ index = [ k \in IndexKeys |->
                    IF k = "claude-console" /\ rx = QuarantinedRecord THEN { "X" }
                    ELSE {} ]
  /\ healthy = {}
  /\ hung = {}
  /\ initial = [ record |-> record, index |-> index ]
  /\ faults = 0
  /\ h = IdleCall
  /\ hprev = NoCall
  /\ calls = 0
  /\ lastWriter = [ a \in Accounts |-> "none" ]
  /\ cyc = [ s \in CycleSlots |-> IdleCycle ]
  /\ cycles = 0
  /\ man = IdleManual
  /\ tests = 0
  /\ test = NoTest
  /\ svc = NotStarted
  /\ enabled = TRUE

NextManual ==
  \/ SendStreamTestRequestFull \/ HUpdateAccount \/ HSadd
  \/ MSIsMember \/ MRecover \/ MSrem
  \/ Tick

SpecManual == InitManual /\ [][NextManual]_vars

\* ---- every operation against an account that has been soft-deleted
\* the record of an account after its deletion: the marker is set
SoftDeleted(rec) == [ rec EXCEPT !.isDeleted = TRUE ]

InitDeleted ==
  /\ now = 0
  /\ \E rx \in { FreshRecord, QuarantinedRecord } :
       /\ record = [ a \in Accounts |-> IF a[2] = "X" THEN Some(SoftDeleted(rx))
                                       ELSE Some(FreshRecord) ]
       /\ index = [ k \in IndexKeys |->
                    IF k = "claude-console" /\ rx = QuarantinedRecord
                    THEN { "X" } ELSE {} ]
  /\ healthy \in { {}, Accounts }
  /\ hung = {}
  /\ initial = [ record |-> record, index |-> index ]
  /\ faults = MaxFaults
  /\ h = IdleCall
  /\ hprev = NoCall
  /\ calls = 0
  /\ lastWriter = [ a \in Accounts |-> "none" ]
  /\ cyc = [ s \in CycleSlots |-> IdleCycle ]
  /\ cycles = 0
  /\ man = IdleManual
  /\ tests = 0
  /\ test = NoTest
  /\ svc = Started(NotStarted)
  /\ enabled = TRUE

NextDeleted ==
  \/ RelayError \/ HUpdateAccount \/ HSadd
  \/ SendStreamTestRequest \/ MSIsMember \/ MRecover \/ MSrem
  \/ Cycle \/ IntervalFires
  \/ Tick

SpecDeleted == InitDeleted /\ [][NextDeleted]_vars


\* ======================================================== properties
AllIdle == h.pc = "idle" /\ man.pc = "idle"

\* a recovery cycle has completed, it ran with no store failure and no step
\* of another writer, and nothing has happened since
CycleSettled(s) ==
  cyc[s].pc = "idle" /\ cyc[s].done /\ cyc[s].undisturbed /\ AllIdle

\* C1 (P1, index-record coupling): once every call has finished and one
\* further complete recovery cycle has run with no store failure and no
\* concurrent writer, every account is in its type's index if and only if
\* its record has both autoDisabledAt and autoDisabledReason.
C1_IndexRecordCoupling ==
  \A s \in CycleSlots :
    CycleSettled(s) => \A a \in Accounts : InIndex(a) <=> BothFields(a)

\* C2 (disable/recover race converges): with no store failure at all, after
\* any interleaving of a disable with a re-admission of an indexed account,
\* one complete recovery cycle leaves no account quarantined on its record
\* but missing from the index, and no account indexed without the fields.
C2_RaceConverges ==
  \A s \in CycleSlots :
    (CycleSettled(s) /\ faults = 0) =>
      \A a \in Accounts :
        /\ BothFields(a) => InIndex(a)
        /\ InIndex(a) => BothFields(a)

\* C3 (eventual re-admission), the scheduled path: an account of any
\* provider type that was quarantined when a recovery cycle began and whose
\* upstream is healthy is schedulable and out of the index when that cycle
\* has completed with the service running.
C3_EventualReadmission ==
  \A s \in CycleSlots :
    (CycleSettled(s) /\ svc.isRunning) =>
      \A a \in cyc[s].due :
        a \in healthy => record[a][1].schedulable /\ ~InIndex(a)

\* ---- the disable path
CallTarget(c) == << c.accountType, c.accountId >>
InRange(statusCode) == 400 <= statusCode /\ statusCode <= 599
KnownType(accountType) ==
  accountType \in { accountTypes[i] : i \in 1..Len(accountTypes) }
StoreFailed(c) == c.result.error \in { Some(ErrRecordStore), Some(ErrIndex) }
Returns(c) == c.pc = "idle" /\ c.result.kind # "none"

\* "HTTP <statusCode>: " followed by the first 200 characters of the message
ExpectedReason(statusCode, chars) ==
  << "H", "T", "T", "P", " " >> \o Digits(statusCode) \o << ":", " " >>
    \o [ i \in 1..Min(200, Len(chars)) |-> chars[i] ]

\* the next step is the head of a new handleErrorResponse call
CallStep == calls' = calls + 1
\* the next step is the one in which the call in flight returns
ReturnStep == h.pc # "idle" /\ h'.pc = "idle"

\* C4 (P2, status-code gating): a call whose statusCode is outside 400..599
\* changes neither a record nor an index and returns disabled=false; a call
\* whose statusCode is inside 400..599, for a known provider type, a string
\* message and no store failure, goes on to write the record and returns
\* only after it has added the id to the index.
C4_Step ==
  /\ (CallStep /\ ~InRange(h'.statusCode)) =>
       /\ record' = record /\ index' = index
       /\ h'.pc = "idle" /\ h'.result = NotDisabled
  /\ (CallStep /\ InRange(h'.statusCode) /\ h'.msg.isString) => h'.pc = "update"
  /\ (ReturnStep /\ InRange(h.statusCode) /\ KnownType(h.accountType)
        /\ ~StoreFailed(h')) =>
       /\ h'.recordWritten /\ h'.saddAttempted /\ h'.result.disabled
       /\ h.accountId \in index'[h.accountType]
       /\ ~record'[CallTarget(h)][1].schedulable
C4_StatusCodeGating == [][C4_Step]_vars

C4_Witness ==
  /\ Returns(h) /\ h.statusCode = 599 /\ h.result.disabled
  /\ h.accountId \in index[h.accountType]
  /\ calls = 2

\* C5 (disable postcondition): when a call returns disabled=true, the
\* returned reason is "HTTP <statusCode>: " plus the first 200 characters of
\* the message, the accountId is in the index of exactly that providerType
\* (no other index changed), and the record, unless another writer wrote it
\* after this call did, has schedulable=false, autoDisabledAt set, that
\* reason, and details carrying statusCode, the full message, the URL and
\* the trigger kind.
C5_Step ==
  (ReturnStep /\ h'.result.disabled) =>
    /\ h'.result.reason = Some(ExpectedReason(h.statusCode, h.msg.chars))
    /\ h.accountId \in index'[h.accountType]
    /\ \A k \in IndexKeys \ { h.accountType } : index'[k] = index[k]
    /\ lastWriter[CallTarget(h)] = "disable" =>
         LET rec == record'[CallTarget(h)][1]
         IN /\ rec.schedulable = FALSE
            /\ Has(rec.autoDisabledAt)
            /\ rec.autoDisabledReason = Some(ExpectedReason(h.statusCode, h.msg.chars))
            /\ Has(rec.autoDisabledDetails)
            /\ rec.autoDisabledDetails[1].statusCode = h.statusCode
            /\ rec.autoDisabledDetails[1].errorMessage = h.msg.chars
            /\ rec.autoDisabledDetails[1].apiUrl = h.apiUrl
            /\ rec.autoDisabledDetails[1].triggerType = h.triggerType
C5_DisablePostcondition == [][C5_Step]_vars

\* Scenario A with a message longer than 200 characters as well
C5_Witness ==
  /\ Returns(h) /\ h.result.disabled /\ h.msg = MsgLong
  /\ Len(record[CallTarget(h)][1].autoDisabledReason[1]) = 10 + 200
  /\ \E a \in Accounts :
       /\ a # CallTarget(h)
       /\ InIndex(a)
       /\ record[a][1].autoDisabledReason =
            Some(<< "H", "T", "T", "P", " ", "4", "0", "4", ":", " ",
                    "n", "o", "t", " ", "f", "o", "u", "n", "d" >>)

\* C6 (disable ordering): the index add is attempted only after the record
\* update of the same call has completed, never after it failed, and a step
\* in which the record update fails leaves every index unchanged.
C6_Step ==
  /\ (h'.saddAttempted /\ ~h.saddAttempted) =>
       h.pc = "sadd" /\ h.recordWritten /\ ~h.updateFailed
  /\ (index' # index) => h.recordWritten /\ ~h.updateFailed
  /\ (h'.updateFailed /\ ~h.updateFailed) =>
       index' = index /\ h'.pc = "idle" /\ ~h'.saddAttempted
C6_DisableOrdering ==
  /\ [][C6_Step]_vars
  /\ [](h.updateFailed => h.pc = "idle" /\ ~h.saddAttempted /\ ~h.recordWritten)

C6_Witness ==
  /\ Returns(h) /\ h.updateFailed /\ h.result.error = Some(ErrRecordStore)
  /\ h.accountId \notin index[h.accountType]

\* C7: when the index add fails after the record update has succeeded, the
\* call still returns disabled=true.
C7_IndexFailureStillSuccess ==
  (Returns(h) /\ h.recordWritten /\ h.saddFailed) => h.result.disabled

\* C8 (P3, idempotent disable): when the second of two calls in a row for
\* the same account and type, with different messages, returns disabled=true
\* like the first, the index holds exactly one entry for the account and the
\* record shows the reason and the details of the second call.
C8_Step ==
  (/\ ReturnStep /\ h'.result.disabled
   /\ hprev.disabled /\ hprev.target = CallTarget(h) /\ hprev.msg # h.msg
   /\ lastWriter[CallTarget(h)] = "disable") =>
    LET rec == record'[CallTarget(h)][1]
    IN /\ Cardinality({ x \in index'[h.accountType] : x = h.accountId }) = 1
       /\ rec.autoDisabledReason = Some(ExpectedReason(h.statusCode, h.msg.chars))
       /\ Has(rec.autoDisabledDetails)
       /\ rec.autoDisabledDetails[1].errorMessage = h.msg.chars
       /\ rec.autoDisabledDetails[1].statusCode = h.statusCode
       /\ rec.autoDisabledDetails[1].triggerType = h.triggerType
       /\ rec.autoDisabledDetails[1].errorMessage # hprev.msg.chars
C8_IdempotentDisable == [][C8_Step]_vars

C8_Witness ==
  /\ Returns(h) /\ h.result.disabled
  /\ hprev.disabled /\ hprev.target = CallTarget(h)
  /\ hprev.msg = MsgLong /\ h.msg = MsgNotFound
  /\ index[h.accountType] = { h.accountId }
  /\ record[CallTarget(h)][1].autoDisabledDetails[1].errorMessage = MsgNotFound.chars

\* C9 (unknown provider type): a call with a providerType outside the
\* recognized set and a qualifying status code writes no record and adds to
\* no index in any of its steps, and returns disabled=false with an error
\* description.
C9_Step ==
  (h' # h /\ ~KnownType(h'.accountType)) => record' = record /\ index' = index
C9_UnknownType ==
  /\ [][C9_Step]_vars
  /\ []((Returns(h) /\ ~KnownType(h.accountType) /\ InRange(h.statusCode)
           /\ h.msg.isString) =>
          /\ h.result.kind = "value" /\ ~h.result.disabled
          /\ h.result.error = Some(ErrUnknownType)
          /\ ~h.recordWritten /\ ~h.saddAttempted)

C9_Witness ==
  /\ Returns(h) /\ h.accountType = UnknownType /\ h.statusCode = 400
  /\ h.result.error = Some(ErrUnknownType)
  /\ \A k \in IndexKeys : index[k] = {}

\* C10: handleErrorResponse never rejects: whatever its call sites pass,
\* the value sendStreamTestRequest extracts from the upstream body included,
\* and whatever store fails, it completes with a result value.
C10_NeverRejects == Returns(h) => h.result.kind = "value"


\* ---- the recovery paths
\* C11 (invariant I2): in every state that handleErrorResponse, recovery
\* cycles, the startup cleanup and manual recovery produce from fresh
\* records, each record has autoDisabledAt if and only if it has
\* autoDisabledReason, and when they are present schedulable is false.
C11_FieldsTogether ==
  \A a \in Accounts :
    LET rec == record[a][1]
    IN /\ Has(rec.autoDisabledAt) <=> Has(rec.autoDisabledReason)
       /\ Has(rec.autoDisabledAt) => ~rec.schedulable

\* one account re-admitted after a disable, the other one quarantined
C11_Witness ==
  \E a, b \in Accounts :
    /\ lastWriter[a] = "recover" /\ record[a][1].schedulable
    /\ ~Has(record[a][1].autoDisabledAt) /\ ~Has(record[a][1].autoDisabledReason)
    /\ Has(record[b][1].autoDisabledAt) /\ Has(record[b][1].autoDisabledReason)
    /\ ~record[b][1].schedulable

\* an operator disabled the account: schedulable=false, no auto-disable field
ManuallyDisabled(a) ==
  /\ ~record[a][1].schedulable
  /\ ~Has(record[a][1].autoDisabledAt)
  /\ ~Has(record[a][1].autoDisabledReason)

\* C12 (manually disabled accounts are never auto-recovered): no step of a
\* recovery cycle, of the startup cleanup or of recoverAccountFromTest sets
\* schedulable to true on a record that has schedulable=false and neither
\* autoDisabledAt nor autoDisabledReason, a stray index entry included.
C12_Step ==
  \A a \in Accounts : ManuallyDisabled(a) => ~record'[a][1].schedulable
C12_ManualNeverRecovered == [][C12_Step]_vars

\* the record and index state of a re-admitted account
Readmitted(a, rec, idx) ==
  /\ rec[a][1].schedulable
  /\ ~Has(rec[a][1].autoDisabledAt)
  /\ ~Has(rec[a][1].autoDisabledReason)
  /\ ~Has(rec[a][1].autoDisabledDetails)
  /\ Has(rec[a][1].autoRecoveredAt)
  /\ Has(rec[a][1].lastAutoRecoveryAttempt)
  /\ a[2] \notin idx[a[1]]

\* the next step completes recoverAccountFromTest with recovered=true
ManualCompletes == man.pc = "srem" /\ man'.pc = "idle" /\ man'.result.recovered
\* the next step completes _recoverAccount for the account run s works on
CycleCompletes(s) ==
  /\ cyc[s].pc = "srem"
  /\ cyc'[s].recovered + cyc'[s].totalRecovered
       = cyc[s].recovered + cyc[s].totalRecovered + 1

\* C13 (P4, recovery clears fields): when a re-admission completes, by a
\* passing scheduled probe or by a manual recovery of an indexed account,
\* the record has autoDisabledAt, autoDisabledReason and autoDisabledDetails
\* absent, schedulable=true, autoRecoveredAt and lastAutoRecoveryAttempt
\* set, and the account is out of its type's index: the same state on both
\* paths.
C13_Step ==
  /\ ManualCompletes =>
       Readmitted(<< man.accountType, man.accountId >>, record', index')
  /\ \A s \in CycleSlots :
       CycleCompletes(s) => Readmitted(CurKey(cyc[s]), record', index')
C13_RecoveryClearsFields == [][C13_Step]_vars

\* Scenario B, and a manual recovery next to it
C13_Witness ==
  /\ man.pc = "idle" /\ man.result.recovered /\ man.accountId = "Z"
  /\ \E s \in CycleSlots : cyc[s].done /\ cyc[s].totalRecovered = 1
  /\ \A a \in Accounts : Readmitted(a, record, index)
  /\ record[<< "claude-console", "X" >>] = record[<< "gemini", "Z" >>]

\* C14 (re-admission ordering): on the scheduled and on the manual path the
\* index removal of _recoverAccount is attempted only after the record
\* update of the same re-admission has completed, never after it failed,
\* and a step in which the record update fails leaves every index unchanged
\* (the account stays in the index).
C14_Step ==
  /\ (man'.sremAttempted /\ ~man.sremAttempted) =>
       man.pc = "srem" /\ man.recordWritten /\ ~man.updateFailed
  /\ (man'.updateFailed /\ ~man.updateFailed) =>
       /\ index' = index
       /\ man'.pc = "idle" /\ ~man'.sremAttempted /\ ~man'.result.recovered
  /\ \A s \in CycleSlots :
       (cyc[s].pc = "recover" /\ faults' > faults /\ cyc'[s].pc # "recover") =>
         /\ index' = index
         /\ cyc'[s].pc # "srem"
  /\ (index' # index) =>
       \/ man.pc = "srem" /\ man.recordWritten /\ ~man.updateFailed
       \/ \E s \in CycleSlots :
            \/ cyc[s].pc = "srem" /\ cyc[s].recordWritten /\ ~cyc[s].updateFailed
            \/ cyc[s].pc = "cleanup"
C14_ReadmissionOrdering ==
  /\ [][C14_Step]_vars
  /\ [](\A s \in CycleSlots :
          cyc[s].pc = "srem" => cyc[s].recordWritten /\ ~cyc[s].updateFailed)
  /\ [](man.pc = "srem" => man.recordWritten /\ ~man.updateFailed)

\* a manual re-admission whose record update failed: the id is still indexed
C14_Witness ==
  /\ man.pc = "idle" /\ man.updateFailed /\ ~man.sremAttempted
  /\ man.result = RecoverError
  /\ man.accountId \in index[man.accountType]
  /\ ~record[<< man.accountType, man.accountId >>][1].schedulable

\* a step of run s itself (other processes only mark it as disturbed)
CycStep(s) == [ cyc'[s] EXCEPT !.undisturbed = cyc[s].undisturbed ] # cyc[s]

\* the index member run s works on has no record, or its record lacks
\* autoDisabledAt or autoDisabledReason
Inconsistent(c) ==
  \/ CurKey(c) \notin Accounts
  \/ ~Has(record[CurKey(c)][1].autoDisabledAt)
  \/ ~Has(record[CurKey(c)][1].autoDisabledReason)

\* accounts counted as cleaned by a run so far
CleanedCount(c) == c.cleaned + c.totalCleaned + c.startupCleaned

\* C15 (P5, consistency cleanup): for an index member whose record is
\* absent or lacks autoDisabledAt or autoDisabledReason, the recovery cycle
\* and the startup cleanup go from validation straight to the cleanup (no
\* lastAutoRecoveryAttempt update, no probe), write no record, and the
\* cleanup removes the id from the index and counts the account as cleaned;
\* when a run has completed with no store failure and no other writer, no
\* such member is left in any index.
C15_Step ==
  \A s \in CycleSlots :
    LET c == cyc[s]
    IN /\ (c.pc = "validate" /\ CycStep(s) /\ Inconsistent(c)) =>
            cyc'[s].pc = "cleanup" /\ record' = record /\ index' = index
       /\ (c.pc = "cleanup" /\ CycStep(s)) =>
            /\ record' = record
            /\ CleanedCount(cyc'[s]) = CleanedCount(c) + 1
            /\ cyc'[s].pc \notin { "attempt", "probe", "recover", "srem", "cleanup" }
            /\ faults' = faults =>
                 /\ c.cur[1] \notin index'[CurType(c)]
                 /\ \A k \in IndexKeys \ { CurType(c) } : index'[k] = index[k]
C15_ConsistencyCleanup ==
  /\ [][C15_Step]_vars
  /\ [](\A s \in CycleSlots :
          (cyc[s].done /\ cyc[s].undisturbed) =>
            \A k \in IndexKeys : \A id \in index[k] :
              << k, id >> \in Accounts /\ BothFields(<< k, id >>))

\* P5's scenario at startup, next to the stale entry of a deleted account:
\* both entries are gone, the record is as it was
C15_Witness ==
  /\ \E s \in CycleSlots : cyc[s].done /\ cyc[s].startupCleaned = 2
  /\ index["claude-console"] = {}
  /\ record[<< "claude-console", "X" >>] = Some(AtOnlyRecord)

\* C16 (P6, manual recovery is narrow): recoverAccountFromTest for an
\* account that is not a member of its type's index returns recovered=false
\* with reason not_auto_disabled, and none of its steps changes a record or
\* an index, whatever the record's schedulable value is.
C16_Step ==
  /\ (man.pc = "idle" /\ man'.pc = "sismember") => record' = record /\ index' = index
  /\ (/\ man.pc = "sismember" /\ man' # man /\ faults' = faults
      /\ man.accountId \notin index[man.accountType]) =>
       /\ man'.pc = "idle" /\ man'.result = NotAutoDisabled
       /\ record' = record /\ index' = index
C16_ManualRecoveryNarrow ==
  /\ [][C16_Step]_vars
  /\ [](man.result = NotAutoDisabled =>
          man.pc = "idle" /\ ~man.recordWritten /\ ~man.sremAttempted)

\* a manually disabled account outside the index is left alone
C16_Witness ==
  /\ man.pc = "idle" /\ man.result = NotAutoDisabled /\ man.accountId = "X"
  /\ "X" \notin index["claude-console"]
  /\ record[<< "claude-console", "X" >>] = Some(ManualRecord)

\* accounts counted as failed by a run so far
FailedCount(c) == c.failed + c.totalFailed

\* C17 (dependency errors are failures, not cleanups): when the record
\* store fails while a recovery cycle fetches or updates an account's
\* record, the account is counted as failed and not as cleaned, no record
\* and no index changes, and the run does not go on to clean the account
\* out of the index.
C17_Step ==
  \A s \in CycleSlots :
    LET c == cyc[s]
    IN (/\ c.mode = "check" /\ c.pc \in { "validate", "attempt", "recover" }
        /\ CycStep(s) /\ faults' > faults) =>
         /\ record' = record /\ index' = index
         /\ FailedCount(cyc'[s]) = FailedCount(c) + 1
         /\ CleanedCount(cyc'[s]) = CleanedCount(c)
         /\ cyc'[s].pc # "cleanup"
C17_DependencyErrorsFail == [][C17_Step]_vars

\* run s leaves the provider type it is working on
LeavesType(s) ==
  \/ cyc'[s].typeIdx # cyc[s].typeIdx
  \/ cyc'[s].mode # cyc[s].mode
  \/ cyc'[s].pc = "idle"

\* C18 (cycle error containment): a run never ends before the last provider
\* type and always ends as completed; a store or probe error while one
\* account is processed leaves the loop in the same provider type until
\* every enumerated account has been processed; a failed enumeration of one
\* type's index moves the run on to the next type; a run in flight is never
\* stuck.
C18_Step ==
  \A s \in CycleSlots :
    LET c == cyc[s]
    IN /\ (CycStep(s) /\ c.pc # "idle" /\ cyc'[s].pc = "idle") =>
            c.typeIdx = Len(accountTypes) /\ cyc'[s].done
       /\ (CycStep(s) /\ c.pc \notin { "idle", "smembers" } /\ LeavesType(s)) =>
            c.todo = {}
       /\ (CycStep(s) /\ c.pc \notin { "idle", "smembers" } /\ c.todo # {}
             /\ cyc'[s].cur # c.cur) =>
            cyc'[s].pc = "validate" /\ cyc'[s].cur[1] \in c.todo
       /\ (CycStep(s) /\ c.pc = "smembers" /\ faults' > faults
             /\ c.typeIdx < Len(accountTypes)) =>
            /\ cyc'[s].pc = "smembers" /\ cyc'[s].typeIdx = c.typeIdx + 1
            /\ cyc'[s].mode = c.mode
C18_CycleErrorContainment ==
  /\ [][C18_Step]_vars
  /\ [](\A s \in CycleSlots : cyc[s].pc # "idle" => ENABLED Cycle)

\* a scheduled check in which a store or probe error hit the healthy account
\* X and the other member of the same index was still processed (cleaned)
C18_Witness ==
  /\ healthy = Accounts /\ faults = 1
  /\ \E s \in CycleSlots :
       /\ cyc[s].done /\ cyc[s].startupCleaned = 0
       /\ cyc[s].totalChecked = 2 /\ cyc[s].totalFailed = 1 /\ cyc[s].totalCleaned = 1
  /\ index["claude-console"] = { "X" }

\* C19 (attempt recorded before probing): in a recovery check every index
\* member that passes validation gets lastAutoRecoveryAttempt written before
\* its probe is invoked (the probe starts only from a completed attempt
\* write); the probe itself writes nothing, so a failing probe leaves the
\* written value, and when the account's processing ends the field is set
\* to a time not earlier than the one written before the probe.
C19_Step ==
  \A s \in CycleSlots :
    LET c == cyc[s]
    IN /\ (/\ c.pc = "validate" /\ c.mode = "check" /\ CycStep(s)
           /\ ~Inconsistent(c) /\ faults' = faults) =>
            cyc'[s].pc = "attempt" /\ record' = record
       /\ (cyc'[s].pc = "probe" /\ c.pc # "probe") =>
            /\ c.pc = "attempt"
            /\ record'[CurKey(c)][1].lastAutoRecoveryAttempt = Some(now)
            /\ cyc'[s].attemptAt = Some(now)
       /\ (c.pc = "probe" /\ CycStep(s)) => record' = record
       /\ (c.pc \in { "probe", "recover", "srem" } /\ CycStep(s)) =>
            /\ Has(c.attemptAt)
            /\ Has(record'[CurKey(c)][1].lastAutoRecoveryAttempt)
            /\ record'[CurKey(c)][1].lastAutoRecoveryAttempt[1] >= c.attemptAt[1]
ProbeFails(c) ==
  \/ CurType(c) \notin { "claude-console", "bedrock" }
  \/ CurKey(c) \notin healthy
  \/ faults' # faults

OnlyAttemptChanged(old, new) ==
  [ new EXCEPT !.lastAutoRecoveryAttempt = old.lastAutoRecoveryAttempt ] = old

C20_Step ==
  \A s \in CycleSlots :
    LET c == cyc[s]
    IN /\ (c.pc = "attempt" /\ CycStep(s)) =>
            /\ index' = index
            /\ \A k \in DOMAIN record :
                 IF k = CurKey(c) /\ faults' = faults
                 THEN OnlyAttemptChanged(record[k][1], record'[k][1])
                 ELSE record'[k] = record[k]
       /\ (c.pc = "probe" /\ CycStep(s) /\ ProbeFails(c)) =>
            /\ record' = record
            /\ index' = index
            /\ cyc'[s].pc \notin { "recover", "srem" }
            /\ FailedCount(cyc'[s]) = FailedCount(c) + 1
            /\ cyc'[s].recovered + cyc'[s].totalRecovered
                 = c.recovered + c.totalRecovered
NoProbeType(c) == CurType(c) \notin { "claude-console", "bedrock" }

C21_Step ==
  \A s \in DOMAIN cyc :
    LET c == cyc[s]
    IN (c.pc = "probe" /\ NoProbeType(c) /\ CycStep(s)) =>
         /\ faults' = faults
         /\ record' = record
         /\ index' = index
         /\ \A k \in Accounts :
              (k = CurKey(c) /\ Quarantined(k)) => Quarantined(k)'
         /\ FailedCount(cyc'[s]) = FailedCount(c) + 1
         /\ cyc'[s].recovered + cyc'[s].totalRecovered
              = c.recovered + c.totalRecovered
         /\ \/ cyc'[s].pc = "validate" /\ cyc'[s].cur[1] \in c.todo
            \/ cyc'[s].pc = "smembers" /\ cyc'[s].typeIdx = c.typeIdx + 1
                 /\ c.todo = {}
            \/ cyc'[s].pc = "idle" /\ cyc'[s].done /\ c.todo = {}
                 /\ c.typeIdx = Len(accountTypes)
C21_NoProbeTypeFails ==
  /\ [][C21_Step]_vars
  /\ [](\A s \in DOMAIN cyc :
          (cyc[s].pc = "probe" /\ NoProbeType(cyc[s])) => ENABLED CProbe(s))

\* a run has ended with the healthy gemini account attempted, counted as
\* failed and still quarantined
C21_Witness ==
  /\ << "gemini", "Z" >> \in healthy
  /\ \E s \in DOMAIN cyc : cyc[s].done /\ cyc[s].totalFailed >= 1
                           /\ cyc[s].totalChecked >= 1
  /\ lastWriter[<< "gemini", "Z" >>] = "attempt"
  /\ Quarantined(<< "gemini", "Z" >>)
  /\ faults = 0

\* C22 (probe timeout bounds a cycle): a run that waits for the answer of a
\* probe always has a next step, the answer or the abandonment of the probe
\* after testTimeoutSeconds, so that no run stays at one account for ever.
C22_HungProbeAbandoned ==
  \A s \in DOMAIN cyc : cyc[s].pc = "probe" => ENABLED CProbe(s)

\* C23 (deleted accounts are skipped): no step of handleErrorResponse, of a
\* recovery run or of recoverAccountFromTest changes the record of an account
\* whose isDeleted marker is true.
C23_Step ==
  \A a \in Accounts :
    (Has(record[a]) /\ record[a][1].isDeleted) => record'[a] = record[a]
C23_DeletedSkipped == [][C23_Step]_vars

\* C24 (single timer): whatever start() and stop() calls have been made, at
\* most one interval is armed, the service is marked running exactly when
\* one is armed and its handle is held, and a start() call made while running
\* arms no interval and launches no run.
StartCallReturns == svc'.noops = svc.noops + 1 /\ svc'.lastNoop = "start"

C24_Step ==
  (StartCallReturns /\ svc.isRunning) =>
    /\ svc'.timers = svc.timers
    /\ svc'.isRunning /\ svc'.intervalHandle
    /\ cycles' = cycles
    /\ cyc' = cyc
C24_SingleTimer ==
  /\ [](/\ svc.timers \in { 0, 1 }
        /\ svc.isRunning <=> svc.timers = 1
        /\ svc.intervalHandle <=> svc.timers = 1)
  /\ [][C24_Step]_vars

\* start() has been called on the running service, after a stop and a
\* restart: one interval is armed
C24_Witness ==
  /\ svc.isRunning /\ svc.timers = 1
  /\ svc.noops = 1 /\ svc.lastNoop = "start"
  /\ cycles = 2

\* C25 (start): a start() call on a service that is not running and not
\* disabled marks it running, arms one interval and launches exactly one run
\* in the same call, without waiting for any step of it; that run goes on to
\* a full recovery check from the first provider type; every firing of the
\* interval launches exactly one recovery check.
Launched(s, mode) ==
  /\ cyc[s].pc = "idle"
  /\ cyc'[s].pc = "smembers" /\ cyc'[s].mode = mode /\ cyc'[s].typeIdx = 1
  /\ cyc'[s].totalChecked = 0 /\ ~cyc'[s].done
  /\ \A t \in DOMAIN cyc : t # s => cyc'[t] = cyc[t]

C25_Step ==
  /\ (~svc.isRunning /\ svc'.isRunning) =>
       /\ enabled
       /\ svc'.timers = 1 /\ svc'.intervalHandle
       /\ cycles' = cycles + 1
       /\ \E s \in DOMAIN cyc : Launched(s, "cleanup")
       /\ record' = record /\ index' = index
  /\ (svc' = svc /\ cycles' # cycles) =>
       /\ svc.timers = 1
       /\ cycles' = cycles + 1
       /\ \E s \in DOMAIN cyc : Launched(s, "check")
       /\ record' = record /\ index' = index
  /\ \A s \in DOMAIN cyc :
       /\ (cyc[s].mode = "cleanup" /\ cyc'[s].mode # "cleanup") =>
            /\ cyc'[s].mode = "check" /\ cyc'[s].pc = "smembers"
            /\ cyc'[s].typeIdx = 1 /\ cyc'[s].totalChecked = 0
       /\ (cyc[s].pc # "idle" /\ cyc'[s].pc = "idle") => cyc[s].mode = "check"
C25_StartLaunchesOneRun ==
  /\ [][C25_Step]_vars
  /\ []((/\ ~svc.isRunning /\ enabled /\ cycles < MaxCycles
         /\ \E s \in DOMAIN cyc : cyc[s].pc = "idle") => ENABLED Start)
  /\ []((/\ svc.isRunning /\ cycles < MaxCycles
         /\ \E s \in DOMAIN cyc : cyc[s].pc = "idle") => ENABLED IntervalFires)

\* the run launched by start() has gone on to its recovery check and the
\* interval has launched a second run meanwhile
C25_Witness ==
  /\ svc.isRunning /\ svc.timers = 1 /\ cycles = 2 /\ svc.noops = 0
  /\ \E s, t \in DOMAIN cyc :
       /\ s # t
       /\ cyc[s].mode = "check" /\ cyc[s].pc = "probe" /\ ~cyc[s].overlap
       /\ cyc[t].mode = "check" /\ cyc[t].pc # "idle" /\ cyc[t].overlap

\* C26 (start when disabled): with the configuration option enabled false a
\* start() call changes nothing: the service stays not running, no interval
\* is armed and no run is launched, so the records and the index stay as
\* they were.
C26_Step ==
  (StartCallReturns /\ ~enabled) =>
    /\ ~svc'.isRunning /\ ~svc'.intervalHandle /\ svc'.timers = 0
    /\ cycles' = cycles /\ cyc' = cyc
    /\ record' = record /\ index' = index
C26_StartDisabledNoop ==
  /\ [][C26_Step]_vars
  /\ [](~enabled =>
          /\ ~svc.isRunning /\ ~svc.intervalHandle /\ svc.timers = 0
          /\ cycles = 0
          /\ \A s \in DOMAIN cyc : cyc[s] = IdleCycle
          /\ record = initial.record /\ index = initial.index)
  /\ []((~enabled /\ svc.noops < MaxNoops) => ENABLED StartReturns)

\* start() has been called with the service disabled by configuration
C26_Witness ==
  /\ ~enabled
  /\ svc.noops = 1 /\ svc.lastNoop = "start"
  /\ ~svc.isRunning /\ cycles = 0
  /\ index["claude-console"] # {}

\* C27 (stop is safe in every state): a stop() call on the running service
\* disarms the interval and marks the service not running; a stop() call on
\* a service that is not running (never started, disabled by configuration,
\* or stopped already) leaves it not running with no interval; neither
\* touches a run, a record or the index; stop() can be called in every
\* state, and after it start() starts the service again.
StopCallRunning == svc.isRunning /\ svc' # svc /\ svc'.noops = svc.noops
StopCallNotRunning == svc'.noops = svc.noops + 1 /\ svc'.lastNoop = "stop"

C27_Step ==
  /\ StopCallRunning =>
       /\ ~svc'.isRunning /\ ~svc'.intervalHandle /\ svc'.timers = 0
       /\ cyc' = cyc /\ cycles' = cycles
       /\ record' = record /\ index' = index
  /\ StopCallNotRunning =>
       /\ ~svc.isRunning
       /\ ~svc'.isRunning /\ ~svc'.intervalHandle /\ svc'.timers = 0
       /\ cyc' = cyc /\ cycles' = cycles
       /\ record' = record /\ index' = index
C27_StopSafe ==
  /\ [][C27_Step]_vars
  /\ [](svc.isRunning => ENABLED Stop)
  /\ []((~svc.isRunning /\ svc.noops < MaxNoops) => ENABLED StopNotRunning)
  /\ []((/\ ~svc.isRunning /\ svc.timers = 0 /\ enabled /\ cycles < MaxCycles
         /\ \E s \in DOMAIN cyc : cyc[s].pc = "idle") => ENABLED Start)

\* the service runs again after start(), stop(), a second stop() and a
\* second start(): both runs were launched by start()
C27_Witness ==
  /\ svc.isRunning /\ svc.timers = 1
  /\ svc.noops = 1 /\ svc.lastNoop = "stop"
  /\ cycles = 2
  /\ \A s \in DOMAIN cyc : cyc[s].pc # "idle" /\ cyc[s].mode = "cleanup"

\* C28 (stop does not cancel work in flight): a stop() call leaves every run
\* as it is, and a run in flight on a stopped service goes on exactly as on
\* a running one: it always has a next step (unless it waits for a probe
\* that never answers), it goes on to the accounts it has not processed yet,
\* it still re-admits an account whose probe succeeds, and it ends only
\* after the last provider type.
RunStep(s) ==
  CSmembers(s) \/ CValidate(s) \/ CCleanup(s) \/ CAttempt(s) \/ CProbe(s)
    \/ CRecover(s) \/ CSrem(s)

WaitsForEver(c) ==
  c.pc = "probe" /\ CurType(c) \in { "claude-console", "bedrock" } /\ CurKey(c) \in hung

C28_Step ==
  /\ StopCallRunning => cyc' = cyc
  /\ \A s \in DOMAIN cyc :
       LET c == cyc[s]
       IN (~svc.isRunning /\ CycStep(s)) =>
            /\ (c.pc \in { "cleanup", "srem" } /\ c.todo # {}) =>
                 cyc'[s].pc = "validate" /\ cyc'[s].cur[1] \in c.todo
            /\ (c.pc = "attempt") =>
                 /\ cyc'[s].pc = "probe"
                 /\ Has(record'[CurKey(c)][1].lastAutoRecoveryAttempt)
            /\ (c.pc = "probe" /\ CurKey(c) \in healthy
                  /\ CurType(c) \in { "claude-console", "bedrock" }) =>
                 cyc'[s].pc = "recover"
            /\ (c.pc = "recover") =>
                 /\ record'[CurKey(c)][1].schedulable
                 /\ cyc'[s].pc = "srem"
            /\ (c.pc = "srem") => c.cur[1] \notin index'[CurType(c)]
            /\ (cyc'[s].pc = "idle") =>
                 /\ c.typeIdx = Len(accountTypes) /\ c.todo = {}
                 /\ c.mode = "check" /\ cyc'[s].done
C28_StopKeepsRunsGoing ==
  /\ [][C28_Step]_vars
  /\ [](\A s \in DOMAIN cyc :
          (~svc.isRunning /\ cyc[s].pc # "idle" /\ ~WaitsForEver(cyc[s]))
            => ENABLED RunStep(s))

\* the service has been stopped while a run is about to re-admit X and has
\* the deleted account's id still to process
C28_Witness ==
  /\ ~svc.isRunning /\ svc.timers = 0 /\ svc.noops = 0
  /\ \E s \in DOMAIN cyc :
       /\ cyc[s].pc = "recover" /\ cyc[s].mode = "check"
       /\ CurKey(cyc[s]) = << "claude-console", "X" >>
       /\ cyc[s].todo = { DeletedId }
  /\ ~record[<< "claude-console", "X" >>][1].schedulable

\* C29 (sequential processing within a run): a run works on at most one
\* account at a time; it turns to another account, to the next provider type
\* or to its end only in the step that finishes the account in hand (its
\* cleanup, its failed probe, its re-admission, or an error), each id of the
\* enumerated list being taken once; the probe starts only from the attempt
\* write of the same account; the provider types are taken in the fixed
\* order of accountTypes, the next one only when the list of the one before
\* is exhausted.
FinishesAccount(c) ==
  \/ c.pc \in { "smembers", "cleanup", "srem", "probe" }
  \/ c.pc = "validate" /\ c.mode = "cleanup"
  \/ c.pc \in { "attempt", "recover" } /\ faults' # faults

C29_Step ==
  \A s \in DOMAIN cyc :
    LET c == cyc[s]
        d == cyc'[s]
    IN (c.pc # "idle" /\ CycStep(s)) =>
         /\ Len(d.cur) <= 1
         /\ d.cur # c.cur => FinishesAccount(c)
         /\ (d.pc = "validate") =>
              /\ Has(d.cur)
              /\ d.typeIdx = c.typeIdx /\ d.mode = c.mode
              /\ IF c.pc = "smembers"
                 THEN d.cur[1] \in index[CurType(c)]
                        /\ d.todo = index[CurType(c)] \ { d.cur[1] }
                 ELSE d.cur[1] \in c.todo /\ d.todo = c.todo \ { d.cur[1] }
         /\ (d.pc \in { "cleanup", "attempt", "probe", "recover", "srem" }) =>
              d.cur = c.cur /\ d.todo = c.todo /\ d.typeIdx = c.typeIdx
         /\ (d.pc = "probe") => c.pc = "attempt"
         /\ (d.typeIdx # c.typeIdx \/ d.mode # c.mode \/ d.pc = "idle") =>
              /\ c.todo = {}
              /\ FinishesAccount(c)
         /\ (d.typeIdx # c.typeIdx) =>
              \/ d.typeIdx = c.typeIdx + 1 /\ d.mode = c.mode
              \/ /\ d.typeIdx = 1 /\ c.typeIdx = Len(accountTypes)
                 /\ c.mode = "cleanup" /\ d.mode = "check"
         /\ (d.pc = "idle") => c.typeIdx = Len(accountTypes) /\ c.mode = "check"
C29_SequentialProcessing == [][C29_Step]_vars

\* a check has ended that took three ids, two of them of one provider type
C29_Witness ==
  \E s \in DOMAIN cyc :
    /\ cyc[s].done /\ cyc[s].pc = "idle"
    /\ cyc[s].totalChecked = 3
    /\ cyc[s].totalRecovered + cyc[s].totalFailed + cyc[s].totalCleaned = 3

\* C30 (overlapping runs are safe): with the recovery runs the only writers,
\* no store failure and every probe answering the same each time, once the
\* runs launched have all ended (however they overlapped) every record has
\* the schedulable flag and the auto-disable fields, and every index the
\* members, that one run over the initial state leaves: an indexed account
\* with both fields and a succeeding probe is re-admitted and out of the
\* index; one with both fields and a failing probe is as it was and indexed;
\* every other id is out of the index with its record as it was.
QuarantineFields(rec) ==
  << rec.schedulable, rec.autoDisabledAt, rec.autoDisabledReason,
     rec.autoDisabledDetails >>

Member0(a) == a[2] \in initial.index[a[1]]
Valid0(a) ==
  /\ initial.record[a][1].autoDisabledAt # None
  /\ initial.record[a][1].autoDisabledReason # None
ProbeOk(a) == a[1] \in { "claude-console", "bedrock" } /\ a \in healthy

AfterOneRun(a) ==
  IF Member0(a) /\ Valid0(a) /\ ProbeOk(a)
  THEN [ fields |-> << TRUE, None, None, None >>, indexed |-> FALSE ]
  ELSE [ fields |-> QuarantineFields(initial.record[a][1]),
         indexed |-> Member0(a) /\ Valid0(a) ]

RunsEnded ==
  /\ \A s \in DOMAIN cyc : cyc[s].pc = "idle"
  /\ \E s \in DOMAIN cyc : cyc[s].done

C30_OverlapSafe ==
  (RunsEnded /\ h.pc = "idle" /\ man.pc = "idle" /\ calls = 0 /\ tests = 0) =>
    /\ \A a \in Accounts :
         /\ QuarantineFields(record[a][1]) = AfterOneRun(a).fields
         /\ InIndex(a) <=> AfterOneRun(a).indexed
    /\ \A k \in IndexKeys :
         index[k] \subseteq { a[2] : a \in { b \in Accounts : b[1] = k } }

\* two runs that overlapped have ended: X, quarantined at the start, is
\* re-admitted; one run re-admitted it and the other found it inconsistent
\* in between and cleaned its index entry
C30_Witness ==
  /\ RunsEnded
  /\ \A s \in DOMAIN cyc : cyc[s].done
  /\ \E s \in DOMAIN cyc : cyc[s].overlap
  /\ initial.record[<< "claude-console", "X" >>] = Some(QuarantinedRecord)
  /\ initial.index["claude-console"] = { "X" }
  /\ \E s, t \in DOMAIN cyc :
       /\ cyc[s].totalRecovered = 1
       /\ cyc[t].totalCleaned + cyc[t].startupCleaned = 1
  /\ record[<< "claude-console", "X" >>][1].schedulable
  /\ ~InIndex(<< "claude-console", "X" >>)

\* C31 (cycle counters): in a recovery check every id enumerated from an
\* index is counted in exactly one of recovered, failed and cleaned, the
\* totals being the per-type counts added up type by type: at every moment
\* checked = recovered + failed + cleaned + the ids not finished yet, and at
\* the end of the check totalChecked = totalRecovered + totalFailed +
\* totalCleaned.
InHand(c) ==
  IF c.pc \in { "validate", "cleanup", "attempt", "probe", "recover", "srem" }
  THEN 1 ELSE 0

C31_Step ==
  \A s \in DOMAIN cyc :
    LET c == cyc[s]
        d == cyc'[s]
    IN (c.mode = "check" /\ c.pc # "idle" /\ CycStep(s)) =>
         /\ d.totalChecked + d.checked >= c.totalChecked + c.checked
         /\ d.totalRecovered + d.recovered >= c.totalRecovered + c.recovered
         /\ d.totalFailed + d.failed >= c.totalFailed + c.failed
         /\ d.totalCleaned + d.cleaned >= c.totalCleaned + c.cleaned
         /\ (c.pc = "smembers" /\ faults' = faults) =>
              d.totalChecked + d.checked
                = c.totalChecked + c.checked + Cardinality(index[CurType(c)])
         /\ (d.pc \in { "smembers", "idle" }) =>
              d.checked = 0 /\ d.recovered = 0 /\ d.failed = 0 /\ d.cleaned = 0
C31_CycleCounters ==
  /\ [][C31_Step]_vars
  /\ [](\A s \in DOMAIN cyc :
          LET c == cyc[s]
          IN /\ c.mode = "check" =>
                  c.totalChecked + c.checked
                    = (c.totalRecovered + c.recovered) + (c.totalFailed + c.failed)
                        + (c.totalCleaned + c.cleaned)
                        + Cardinality(c.todo) + InHand(c)
             /\ c.done =>
                  c.totalChecked = c.totalRecovered + c.totalFailed + c.totalCleaned)

\* a check has ended with one account re-admitted, one failed and one id
\* cleaned
C31_Witness ==
  \E s \in DOMAIN cyc :
    /\ cyc[s].done /\ cyc[s].pc = "idle"
    /\ cyc[s].totalChecked = 3
    /\ cyc[s].totalRecovered = 1 /\ cyc[s].totalFailed = 1 /\ cyc[s].totalCleaned = 1

\* ------------------------------------------------ the manual test
\* a step that is one whole connectivity test, from the request to resolve()
TestStep == tests' = tests + 1

\* the upstream answers after which the probe itself has succeeded
ProbeSucceeded(t) == t.upstream \in { "ok", "ok-error-event" }

\* C32 (the manual test's own outcome is never blocked or masked): the step
\* of a test writes exactly one test_complete event carrying the probe's own
\* result, ends the client stream and resolves, whatever health call it
\* launched and while that call has still every store access ahead of it; no
\* later step, of handleErrorResponse or of recoverAccountFromTest, failing or
\* not, changes what the client was sent; at most one test_complete event is
\* written per test.
C32_Step ==
  /\ TestStep =>
       /\ test'.complete = 1 /\ test'.ended /\ test'.resolved
       /\ test'.success = ProbeSucceeded(test')
       /\ test'.success = (test'.error = None)
       /\ test'.launched = "disable" => (h'.pc = "update" \/ Returns(h'))
       /\ test'.launched = "recover" => man'.pc = "sismember"
  /\ ~TestStep => test' = test
C32_TestOutcomeOwn == [][C32_Step]_vars /\ [](test.complete <= 1)
C32_Witness ==
  /\ test.resolved /\ test.complete = 1 /\ ~test.success
  /\ test.launched = "disable"
  /\ h.pc = "idle" /\ h.updateFailed

\* C33 (manual recovery is triggered only by a succeeded test): an account
\* is re-admitted by recoverAccountFromTest only after a test whose upstream
\* answered 200 and whose stream ended without an error event.
C33_OnlySucceededTestRecovers ==
  (test.launched = "recover" /\ (man.recordWritten \/ man.result.recovered))
    => test.upstream = "ok"

\* C35 (recoverAccountFromTest never rejects): a call that has returned has
\* returned a value; when the provider type is unknown or a store access of
\* the call failed, the value is recovered=false with reason "error"; when
\* the record update failed, the record and the index are as before the call.
C35_RecoverNeverRejects ==
  (test.launched = "recover" /\ Returns(man)) =>
    /\ man.result.kind = "value"
    /\ (AccountService(man.accountType) = None \/ faults > 0) =>
         (~man.result.recovered /\ man.result.reason = "error")
    /\ man.updateFailed => (record = initial.record /\ index = initial.index)

\* C36 (manual-test disable trigger): a test calls handleErrorResponse only
\* for a response with a status in 400..599 and with both accountType and
\* accountId passed, and then with trigger kind test; a test whose request or
\* response stream failed, or whose response had a non-200 status below 400,
\* launches nothing and changes no record and no index.
C36_Step ==
  TestStep =>
    /\ h' # h =>
         /\ test'.upstream = "status" /\ test'.ids # None
         /\ test'.status >= 400 /\ test'.status < 600
         /\ h'.triggerType = "test" /\ h'.statusCode = test'.status
         /\ << h'.accountType, h'.accountId >> = test'.ids[1]
    /\ (\/ test'.upstream \in { "transport", "status-stream-error", "ok-stream-error" }
        \/ (test'.upstream = "status" /\ test'.status < 400)) =>
         /\ h' = h /\ man' = man
         /\ record' = record /\ index' = index
C36_TestDisableTrigger == [][C36_Step]_vars
C36_Witness ==
  /\ test.upstream = "status" /\ test.status = 599 /\ test.ids = Some(<< "claude-console", "X" >>)
  /\ h.triggerType = "test" /\ Returns(h) /\ h.result.disabled
  /\ InIndex(<< "claude-console", "X" >>)

\* run s begins an invocation of runRecoveryCheck: from the interval, or
\* from the .then() of start() when the startup cleanup has resolved
CheckBegins(s) ==
  /\ cyc'[s].pc # "idle" /\ cyc'[s].mode = "check"
  /\ cyc[s].pc = "idle" \/ cyc[s].mode = "cleanup"

\* C34 (no new cycle after stop): an invocation of runRecoveryCheck begins,
\* from the timer or from the work start() launched, only while the service
\* is running, that is not between a stop() and the next start().
C34_Step == \A s \in DOMAIN cyc : CheckBegins(s) => svc.isRunning
C34_NoCycleAfterStop == [][C34_Step]_vars

\* C37 (startup ordering): start() launches the startup cleanup and returns
\* with no store access made; the initial runRecoveryCheck begins in the
\* step in which the cleanup has gone through its last provider type, not
\* before; no step of the cleanup, a failed store access included, ends the
\* chain without that initial check.
C37_Step ==
  /\ (~svc.isRunning /\ svc'.isRunning) =>
       /\ \E s \in DOMAIN cyc : Launched(s, "cleanup")
       /\ record' = record /\ index' = index /\ faults' = faults
  /\ \A s \in DOMAIN cyc :
       (cyc[s].mode = "cleanup" /\ cyc[s].pc # "idle" /\ CycStep(s)) =>
         /\ cyc'[s].pc # "idle"
         /\ cyc'[s].mode = "check" =>
              /\ cyc[s].typeIdx = Len(accountTypes) /\ cyc[s].todo = {}
              /\ cyc'[s].pc = "smembers" /\ cyc'[s].typeIdx = 1
              /\ cyc'[s].totalChecked = 0 /\ ~cyc'[s].done
C37_StartupOrdering == [][C37_Step]_vars
C37_Witness ==
  \E s \in DOMAIN cyc :
    /\ cycles = 1 /\ tests = 0 /\ faults = 1
    /\ cyc[s].mode = "check" /\ cyc[s].pc = "smembers" /\ cyc[s].typeIdx = 1
    /\ cyc[s].startupCleaned = 1

\* the recovery service enumerates a provider type in both of its lists and
\* dispatches it in both of its switches
Covered(accountType) ==
  /\ \E i \in 1..Len(accountTypes) : accountTypes[i] = accountType
  /\ \E i \in 1..Len(cleanupAccountTypes) : cleanupAccountTypes[i] = accountType
  /\ GetAccountByType(accountType) # None
  /\ UpdateAccountByType(accountType) # None

\* C38 (provider-type coverage): every provider type that handleErrorResponse
\* dispatches to a record store, every type of a call that has written a
\* record or added an index entry, and every type whose index is not empty,
\* is enumerated by runRecoveryCheck and by cleanupInconsistentData and has a
\* branch in _getAccountByType and _updateAccountByType of the recovery
\* service.
C38_TypeCoverage ==
  /\ \A t \in IndexKeys : AccountService(t) # None => Covered(t)
  /\ (h.recordWritten \/ (h.saddAttempted /\ ~h.saddFailed)) => Covered(h.accountType)
  /\ \A k \in IndexKeys : index[k] # {} => Covered(k)
C38_Witness ==
  /\ Returns(h) /\ h.result.disabled /\ h.recordWritten
  /\ h.accountType = "gemini" /\ "Z" \in index["gemini"]
  /\ hprev.disabled /\ hprev.target = << "claude-console", "X" >>
  /\ "X" \in index["claude-console"]

\* the step is one of an operation applied to provider type t[1] and
\* account id t[2]: a call of handleErrorResponse, a call of
\* recoverAccountFromTest, or a run of the cleanup or of the recovery check
\* with that account in hand
ActsOn(t) ==
  \/ h.pc # "idle" /\ h' # h /\ t = << h.accountType, h.accountId >>
  \/ man.pc # "idle" /\ man' # man /\ t = << man.accountType, man.accountId >>
  \/ \E s \in DOMAIN cyc :
       CycStep(s) /\ cyc[s].cur # None /\ t = CurKey(cyc[s])

\* C39 (per-account and per-type isolation): a step that changes the record
\* of an account is a step of an operation applied to that account, and a
\* step that changes the membership of an id in the index of a type is a step
\* of an operation applied to that type and that id; no operation changes
\* another account's record, another type's index, or another id's
\* membership in its own type's index.
C39_Step ==
  /\ \A a \in Accounts : record'[a] # record[a] => ActsOn(a)
  /\ \A k \in IndexKeys :
       \A id \in (index'[k] \ index[k]) \cup (index[k] \ index'[k]) :
         ActsOn(<< k, id >>)
====
